---- MODULE Spec2Model ----
(***************************************************************************)
(* Model of react-counters: the per-counter registration list (class       *)
(* State) and the counter propagation engine (observer).                   *)
(***************************************************************************)
EXTENDS Integers, Sequences, FiniteSets, TLC

(***************************************************************************)
(* Bounds                                                                  *)
(***************************************************************************)
\* DOM nodes handed to State, numbered in document order
NumSNodes == 3
\* distinct callback functions handed to register / watch
NumListeners == 2
\* cap on the length of State.nodes
MaxRegs == 3
\* cap on the number of calls made on one State
MaxCalls == 5

SNodes == 1..NumSNodes
Listeners == 1..NumListeners

(***************************************************************************)
(* Sequence helpers mirroring Array.prototype methods; indices are the     *)
(* 0-based indices of the source.                                          *)
(***************************************************************************)
\* arr.splice(inx, 0, x)
spliceIn(arr, inx, x) ==
    SubSeq(arr, 1, inx) \o <<x>> \o SubSeq(arr, inx + 1, Len(arr))

\* arr.splice(inx, 1); a negative inx counts from the end (-1 is the last
\* element), and nothing is removed from an empty array
spliceOut(arr, inx) ==
    LET i == IF inx < 0 THEN (IF Len(arr) + inx < 0 THEN 0 ELSE Len(arr) + inx) ELSE inx
    IN  IF i >= Len(arr) THEN arr
        ELSE SubSeq(arr, 1, i) \o SubSeq(arr, i + 2, Len(arr))

\* arr.findIndex(pred), for the predicate "element = x" on a projection
RECURSIVE findIndexFrom(_, _, _)
findIndexFrom(keys, x, i) ==
    IF i >= Len(keys) THEN -1
    ELSE IF keys[i + 1] = x THEN i
    ELSE findIndexFrom(keys, x, i + 1)

findIndex(keys, x) == findIndexFrom(keys, x, 0)

\* Array.from: the array with the elements f[1], f[2], ... of f
arrayOf(f) == f \o <<>>

(***************************************************************************)
(* class State (registration list of one counter)                          *)
(***************************************************************************)
VARIABLES
    nodes,      \* State.nodes: sequence of Registration records
    handles,    \* teardown functions handed out so far, and whether called
    sop,        \* the call made by the last step
    scalls,     \* listener invocations made during the last step, in order
    sthrew,     \* whether the last step ended by throwing
    scount      \* number of calls made so far

svars == <<nodes, handles, sop, scalls, sthrew, scount>>

\* Action performed on a counter by a node (IncrementCounter | SetCounter);
\* NoAction stands for the absent action of an observed registration
NoAction == [type |-> "none", by |-> 0, value |-> 0]
Increment(by) == [type |-> "increment", by |-> by, value |-> 0]
SetCounter(value) == [type |-> "set", by |-> 0, value |-> value]

StateActions == {Increment(1), SetCounter(0)}

Registration(node, mode, listeners, value, action) ==
    [node |-> node, mode |-> mode, listeners |-> listeners,
     value |-> value, action |-> action]

nodeKeys(regs) == arrayOf([i \in 1..Len(regs) |-> regs[i].node])

\* reg.node.compareDocumentPosition(node) & DOCUMENT_POSITION_PRECEDING:
\* node precedes reg.node in document order
precedesS(node, regNode) == node < regNode

RECURSIVE findNodeLoop(_, _, _, _)
findNodeLoop(regs, node, start, end) ==
    IF start < end
    THEN LET middle == (start + end) \div 2
             reg == regs[middle + 1]
         IN  IF node = reg.node THEN start
             ELSE IF precedesS(node, reg.node)
                  THEN findNodeLoop(regs, node, start, middle)
                  ELSE findNodeLoop(regs, node, middle + 1, end)
    ELSE start

\* State.findNode
findNode(regs, node) == findNodeLoop(regs, node, 0, Len(regs))

\* one listener call per listener of the registration, in order
notifyAll(reg, value) ==
    arrayOf([i \in 1..Len(reg.listeners) |->
                [node |-> reg.node, listener |-> reg.listeners[i], value |-> value]])

applyAction(action, value) ==
    IF action.type = "increment" THEN value + action.by
    ELSE IF action.type = "set" THEN action.value
    ELSE value

RECURSIVE updateLoop(_, _, _, _)
updateLoop(regs, inx, value, calls) ==
    IF inx >= Len(regs)
    THEN [nodes |-> regs, calls |-> calls, threw |-> FALSE]
    ELSE IF inx < 0
    \* this.nodes[-1] is undefined: reading node.action throws a TypeError
    THEN [nodes |-> regs, calls |-> calls, threw |-> TRUE]
    ELSE LET node == regs[inx + 1]
             v == applyAction(node.action, value)
         IN  IF v = node.value
             THEN [nodes |-> regs, calls |-> calls, threw |-> FALSE]
             ELSE updateLoop([regs EXCEPT ![inx + 1].value = v], inx + 1, v,
                             calls \o notifyAll(node, v))

\* State.update(start)
update(regs, start) ==
    updateLoop(regs, start, IF start > 0 THEN regs[start].value ELSE 0, <<>>)

Outcome(regs, calls, threw) == [nodes |-> regs, calls |-> calls, threw |-> threw]

\* State.register(node, notify, action)
register(regs, node, notify, action) ==
    LET inx == findNode(regs, node)
        found == inx < Len(regs) /\ regs[inx + 1].node = node
    IN  IF found /\ regs[inx + 1].mode = "managed"
        THEN Outcome(regs, <<>>, TRUE)
        ELSE IF found
        THEN update([regs EXCEPT ![inx + 1] =
                        Registration(node, "managed",
                                     Append(@.listeners, notify), @.value, action)],
                    inx)
        ELSE update(spliceIn(regs, inx,
                             Registration(node, "managed", <<notify>>, 0, action)),
                    inx)

\* watch that registers the watcher as a node that increments the counter
watchCounting(regs, node, notify) ==
    LET inx == findNode(regs, node)
    IN  update(spliceIn(regs, inx,
                        Registration(node, "observed", <<notify>>, 0, Increment(1))),
               inx)

\* State.watch(node, notify)
watch(regs, node, notify) ==
    LET inx == findNode(regs, node)
        found == inx < Len(regs) /\ regs[inx + 1].node = node
    IN  IF found
        THEN Outcome([regs EXCEPT ![inx + 1].listeners = Append(@, notify)],
                     <<[node |-> node, listener |-> notify,
                        value |-> regs[inx + 1].value]>>,
                     FALSE)
        ELSE update(spliceIn(regs, inx,
                             Registration(node, "observed", <<notify>>, 0, NoAction)),
                    inx)

\* State.unregister(node)
unregister(regs, node) ==
    LET index == findIndex(nodeKeys(regs), node)
    IN  update(spliceOut(regs, index), index)

\* State.unwatch(node, notify)
unwatch(regs, node, notify) ==
    LET index == findIndex(nodeKeys(regs), node)
    IN  IF index < 0
        \* reg is undefined: reading reg.mode throws a TypeError
        THEN Outcome(regs, <<>>, TRUE)
        ELSE LET reg == regs[index + 1]
             IN  IF reg.mode = "observed" /\ Len(reg.listeners) = 1
                 THEN Outcome(spliceOut(regs, index), <<>>, FALSE)
                 ELSE Outcome([regs EXCEPT ![index + 1].listeners =
                                  spliceOut(@, findIndex(@, notify))],
                              <<>>, FALSE)

\* Teardown functions: the bound unregister of a node, the bound unwatch of
\* a (node, notify) pair
UnregisterHandle(node) == <<"unregister", node, 0>>
UnwatchHandle(node, notify) == <<"unwatch", node, notify>>
AllHandles ==
    {UnregisterHandle(n) : n \in SNodes}
        \cup {UnwatchHandle(n, l) : n \in SNodes, l \in Listeners}

Call(type, node, listener, action, handle) ==
    [type |-> type, node |-> node, listener |-> listener,
     action |-> action, handle |-> handle]

NoCall == Call("none", 0, 0, NoAction, "none")

(***************************************************************************)
(* The host document: a tree of element nodes that the caller mutates.     *)
(***************************************************************************)
\* element nodes that exist; node 1 is the document element
NumNodes == 6
\* counters (keys of the Actions and Instances maps)
NumCounters == 1
\* cap on the mutation records queued for one MutationObserver
MaxBatch == 2

Nodes == 1..NumNodes
Counters == 1..NumCounters
\* null
Nil == 0
\* the document element: the first node
DocTop == CHOOSE n \in Nodes : \A k \in Nodes : n <= k

VARIABLES
    build,      \* which build of the observer runs: "ts" (src/observer.ts) or
                \* "js" (dist/observer.js)
    implOrder,  \* the implementation-specific order compareDocumentPosition
                \* reports for two disconnected nodes
    live,       \* the nodes the caller has created
    parentOf,   \* node.parentElement, Nil for the top of a tree
    kids        \* node.childNodes

domvars == <<build, implOrder, live, parentOf, kids>>

parentElement(n) == parentOf[n]
hasChildNodes(n) == Len(kids[n]) > 0
firstChild(n) == IF Len(kids[n]) > 0 THEN kids[n][1] ELSE Nil
lastChild(n) == IF Len(kids[n]) > 0 THEN kids[n][Len(kids[n])] ELSE Nil

\* 0-based index of n among the children of its parent
childIndex(n) == findIndex(kids[parentOf[n]], n)

previousSibling(n) ==
    IF parentOf[n] = Nil THEN Nil
    ELSE IF childIndex(n) = 0 THEN Nil
    ELSE kids[parentOf[n]][childIndex(n)]

nextSibling(n) ==
    IF parentOf[n] = Nil THEN Nil
    ELSE IF childIndex(n) + 1 >= Len(kids[parentOf[n]]) THEN Nil
    ELSE kids[parentOf[n]][childIndex(n) + 2]

RECURSIVE isAncestor(_, _)
\* a is a proper ancestor of n
isAncestor(a, n) ==
    IF parentOf[n] = Nil THEN FALSE
    ELSE parentOf[n] = a \/ isAncestor(a, parentOf[n])

RECURSIVE treeTop(_)
treeTop(n) == IF parentOf[n] = Nil THEN n ELSE treeTop(parentOf[n])

connected(n) == treeTop(n) = DocTop

RECURSIVE subtreeSeq(_)
RECURSIVE forestSeq(_, _)
\* the inclusive subtree of n in document (pre-)order
subtreeSeq(n) == <<n>> \o forestSeq(kids[n], 1)
forestSeq(ks, i) ==
    IF i > Len(ks) THEN <<>> ELSE subtreeSeq(ks[i]) \o forestSeq(ks, i + 1)

subtreeSet(n) == {n} \cup {m \in Nodes : isAncestor(n, m)}

\* a precedes b in the order compareDocumentPosition reports: tree order
\* within one tree (an ancestor precedes its descendants), and a consistent
\* implementation-specific order between disconnected nodes
precedes(a, b) ==
    IF a = b THEN FALSE
    ELSE IF treeTop(a) = treeTop(b)
    THEN findIndex(subtreeSeq(treeTop(a)), a) < findIndex(subtreeSeq(treeTop(a)), b)
    ELSE IF implOrder = "asc" THEN treeTop(a) < treeTop(b)
    ELSE treeTop(a) > treeTop(b)

\* (self.compareDocumentPosition(other) & DOCUMENT_POSITION_CONTAINS) !== 0
positionContains(self, other) == isAncestor(other, self)
\* (self.compareDocumentPosition(other) & DOCUMENT_POSITION_CONTAINED_BY) !== 0
positionContainedBy(self, other) == isAncestor(self, other)
\* (self.compareDocumentPosition(other) & DOCUMENT_POSITION_PRECEDING) !== 0
positionPreceding(self, other) == precedes(other, self)
\* (self.compareDocumentPosition(other) & DOCUMENT_POSITION_FOLLOWING) !== 0
positionFollowing(self, other) == precedes(self, other)

(***************************************************************************)
(* The observer: per-node counter stacks kept up to date by sweeps.        *)
(***************************************************************************)
VARIABLES
    ROOTS,      \* tracked roots, in insertion order (keys of the ROOTS map)
    NODES,      \* per-node State records (the NODES weak map)
    pending,    \* per root: mutation records queued for its MutationObserver
    issued,     \* teardown functions returned by observe so far
    consistent, \* whether all tracked stacks were up to date when the oldest
                \* queued mutation was made (the last step's start otherwise)
    op,         \* the call made by the last step
    sweeps,     \* the update() calls of the last step: dirty nodes, nodes
                \* resolved and listener invocations, in order
    calls,      \* listener invocations made during the last step, in order
    batch,      \* the mutation records delivered by the last step
    audit,      \* per tracked root, how its subtree compared with a
                \* from-scratch resolve after the last call or delivery
    threw,      \* whether the last step ended by throwing
    budget      \* number of steps the caller still makes

ovars ==
    <<ROOTS, NODES, pending, issued, consistent, op, sweeps, calls, batch, audit,
      threw, budget>>

\* Origin = Node | Before; the ::before object of a node is created once and
\* kept on the node, so it is identified by its owner
NodeOrigin(n) == [before |-> FALSE, node |-> n]
BeforeOrigin(n) == [before |-> TRUE, node |-> n]

Instance(origin, value) == [origin |-> origin, value |-> value]

\* An absent optional number is the empty sequence, a present one <<v>>
None == <<>>
Some(v) == <<v>>

Action(reset, increment, set) == [reset |-> reset, increment |-> increment, set |-> set]
\* no entry for the counter in the Actions map
NoAct == Action(None, None, None)

\* an empty Instances map: a counter without entry has the empty stack
NoInstances == arrayOf([c \in Counters |-> <<>>])
\* an empty (or undefined) Actions map
NoActions == arrayOf([c \in Counters |-> NoAct])

CountersRec(instances, actions) == [instances |-> instances, actions |-> actions]
\* state.before when it is undefined
NoBefore == [present |-> FALSE, instances |-> NoInstances, actions |-> NoActions]
BeforeRec(instances, actions) ==
    [present |-> TRUE, instances |-> instances, actions |-> actions]

\* NODES.get(node) when it is undefined
NoState ==
    [present |-> FALSE, counters |-> CountersRec(NoInstances, NoActions),
     before |-> NoBefore, listeners |-> <<>>]

\* createState(node)
createState ==
    [present |-> TRUE, counters |-> CountersRec(NoInstances, NoActions),
     before |-> NoBefore, listeners |-> <<>>]

\* the NODES map without entries
NoNodes == arrayOf([n \in Nodes |-> NoState])

\* getState(node): the map after a state was created when necessary
getState(N, node) == IF N[node].present THEN N ELSE [N EXCEPT ![node] = createState]

Src(N, src, t) == [NODES |-> N, src |-> src, threw |-> t]

\* a counter source that is always the parent's stacks
getCounterSourceOfParent(N, node) ==
    IF parentElement(node) = Nil
    THEN Src(N, NoInstances, build = "ts")
    ELSE LET N1 == getState(N, parentElement(node))
             parent == N1[parentElement(node)]
         IN  Src(N1, IF parent.before.present THEN parent.before.instances
                     ELSE parent.counters.instances, FALSE)

\* getCounterSource(node)
getCounterSource(N, node) ==
    IF previousSibling(node) # Nil
    THEN LET N1 == getState(N, previousSibling(node))
         IN  Src(N1, N1[previousSibling(node)].counters.instances, FALSE)
    ELSE IF parentElement(node) = Nil
    \* js returns a new Map; ts calls getState(null), whose NODES.set throws
    THEN Src(N, NoInstances, build = "ts")
    ELSE LET N1 == getState(N, parentElement(node))
             parent == N1[parentElement(node)]
         IN  Src(N1, IF parent.before.present THEN parent.before.instances
                     ELSE parent.counters.instances, FALSE)

RECURSIVE lastDescendant(_)
lastDescendant(n) == IF hasChildNodes(n) THEN lastDescendant(lastChild(n)) ELSE n

\* prev(node): previous node in document order
prev(node) ==
    IF previousSibling(node) # Nil THEN lastDescendant(previousSibling(node))
    ELSE IF parentElement(node) = Nil
    THEN (IF build = "js" THEN node ELSE Nil)
    ELSE parentElement(node)

\* getValueSource(node)
getValueSource(N, node) ==
    LET p == prev(node)
    IN  IF p = Nil THEN Src(N, NoInstances, TRUE)
        ELSE LET N1 == getState(N, p)
             IN  IF p = parentElement(node) /\ N1[p].before.present
                 THEN Src(N1, N1[p].before.instances, FALSE)
                 ELSE Src(N1, N1[p].counters.instances, FALSE)

\* unpackOrigin(origin): the ::before object is { before: node }, so its
\* .node is undefined
unpackOrigin(origin) == IF origin.before THEN Nil ELSE origin.node

\* isSibling(a, b) of the js build, for two real nodes
isSibling(a, b) == parentElement(unpackOrigin(a)) = parentElement(b.node)

\* The test "last.origin === origin || ..." that makes a reset replace the
\* top entry: "pop", "keep", or "throw" (a TypeError)
resetReplaces(last, origin) ==
    IF last.origin = origin THEN "pop"
    \* ts: "!isBefore && isSibling(...)" negates the function isBefore
    ELSE IF build = "ts" THEN "keep"
    \* js: isBefore calls compareDocumentPosition on or with undefined
    ELSE IF unpackOrigin(last.origin) = Nil \/ unpackOrigin(origin) = Nil THEN "throw"
    ELSE IF ~precedes(unpackOrigin(last.origin), unpackOrigin(origin))
            /\ isSibling(last.origin, origin)
    THEN "pop"
    ELSE "keep"

RECURSIVE commonPrefixOfScope(_, _, _)
\* an inherit loop that copies the entries of the scope source
commonPrefixOfScope(iv, ic, i) ==
    IF i > Len(iv) \/ i > Len(ic) THEN <<>>
    ELSE IF iv[i].origin # ic[i].origin THEN <<>>
    ELSE <<Instance(ic[i].origin, ic[i].value)>> \o commonPrefixOfScope(iv, ic, i + 1)

RECURSIVE commonPrefix(_, _, _)
\* the inherit loop of processCounters for one counter
commonPrefix(iv, ic, i) ==
    IF i > Len(iv) \/ i > Len(ic) THEN <<>>
    ELSE IF iv[i].origin # ic[i].origin THEN <<>>
    ELSE <<Instance(iv[i].origin, iv[i].value)>> \o commonPrefix(iv, ic, i + 1)

Front(seq) == SubSeq(seq, 1, Len(seq) - 1)
setLast(seq, value) == [seq EXCEPT ![Len(seq)].value = value]

\* the action loop of processCounters for one counter: the set action
performSet(actions, instances) ==
    [instances |-> IF actions.set = None THEN instances
                   ELSE setLast(instances, actions.set[1]),
     threw |-> FALSE]

\* the action loop without its increment step
performWithoutIncrement(actions, instances) == performSet(actions, instances)

\* the set action before the increment action
performSetFirst(actions, instances) ==
    [instances |->
         IF actions.increment = None THEN performSet(actions, instances).instances
         ELSE setLast(performSet(actions, instances).instances,
                      performSet(actions, instances).instances[Len(instances)].value
                          + actions.increment[1]),
     threw |-> FALSE]

\* the increment action, then the set action
performIncrement(actions, instances) ==
    performSet(actions,
               IF actions.increment = None THEN instances
               ELSE setLast(instances,
                            instances[Len(instances)].value + actions.increment[1]))

\* the reset action once the test for replacing the top entry is made
resetWith(origin, actions, inherited, instances, how) ==
    IF how = "throw" THEN [instances |-> inherited, threw |-> TRUE]
    ELSE performIncrement(actions,
                          Append(IF how = "pop" THEN Front(instances) ELSE instances,
                                 Instance(origin, actions.reset[1])))

\* the actions on the stack instances, which is never empty
performOn(origin, actions, inherited, instances) ==
    IF actions.reset = None THEN performIncrement(actions, instances)
    ELSE resetWith(origin, actions, inherited, instances,
                   resetReplaces(instances[Len(instances)], origin))

\* the action loop of processCounters for one counter
performActions(origin, actions, inherited) ==
    IF actions = NoAct THEN [instances |-> inherited, threw |-> FALSE]
    ELSE performOn(origin, actions, inherited,
                   IF inherited = <<>> THEN <<Instance(origin, 0)>> ELSE inherited)

\* a comparison that always reports a change
countersAlwaysChanged(state, counters) ==
    [instances |-> counters, changed |-> TRUE, threw |-> FALSE]

\* the comparison with the old stacks that ends processCounters
countersChanged(state, counters) ==
    [instances |-> counters, changed |-> counters # state.instances, threw |-> FALSE]

\* processCounters once every counter's stack is computed
countersResult(state, res) ==
    IF \E c \in Counters : res[c].threw
    THEN [instances |-> state.instances, changed |-> FALSE, threw |-> TRUE]
    ELSE countersChanged(state, arrayOf([c \in Counters |-> res[c].instances]))

\* processCounters(origin, state, counterSrc, valueSrc): the new
\* state.instances, the returned flag, and whether it threw
processCounters(origin, state, counterSrc, valueSrc) ==
    countersResult(state,
                   arrayOf([c \in Counters |->
                               performActions(origin, state.actions[c],
                                              commonPrefix(valueSrc[c], counterSrc[c], 1))]))

\* The Map that was state.instances when processCounters started, once the
\* comparison has deleted from it every name of the new Map (a name is in a
\* Map when its stack is not empty)
oldInstancesLeft(instances, counters) ==
    arrayOf([c \in Counters |-> IF counters[c] # <<>> THEN <<>> ELSE instances[c]])

\* What an operation has done so far
Machine(N, v, c, t) == [NODES |-> N, visited |-> v, calls |-> c, threw |-> t]

notifyListeners(node, state, instances) ==
    arrayOf([i \in 1..Len(state.listeners) |->
                [node |-> node, listener |-> state.listeners[i], instances |-> instances]])

\* processBefore once the ::before object's counters are processed
beforeResult(N, node, pc) ==
    [NODES |-> [N EXCEPT ![node].before.instances = pc.instances],
     changed |-> pc.changed, threw |-> pc.threw]

\* processBefore(node, state), on the map N in which node is resolved
processBefore(N, node) ==
    IF ~N[node].before.present
    THEN [NODES |-> N, changed |-> FALSE, threw |-> FALSE]
    ELSE beforeResult(N, node,
                      processCounters(BeforeOrigin(node), N[node].before,
                                      N[node].counters.instances,
                                      N[node].counters.instances))

NextNode(node, t) == [node |-> node, threw |-> t]

RECURSIVE climb(_, _)
\* the for (;;) loop of next()
climb(roots, node) ==
    IF nextSibling(node) # Nil THEN NextNode(nextSibling(node), FALSE)
    ELSE IF parentElement(node) = Nil
    \* ts goes on with node = null and throws reading null.nextSibling
    THEN NextNode(Nil, build = "ts")
    ELSE IF \E i \in 1..Len(roots) : roots[i] = parentElement(node)
    THEN NextNode(Nil, FALSE)
    ELSE climb(roots, parentElement(node))

\* next(node, children): next node in document order; roots are the keys
\* of ROOTS at the time of the call
next(roots, node, children) ==
    IF children /\ hasChildNodes(node) THEN NextNode(firstChild(node), FALSE)
    ELSE climb(roots, node)

\* the loop body from processBefore on
resolveBefore(m, node, changed, instances, pb) ==
    [m |-> Machine(pb.NODES, Append(m.visited, node),
                   m.calls \o (IF changed
                               THEN notifyListeners(node, pb.NODES[node], instances)
                               ELSE <<>>),
                   pb.threw),
     changed |-> pb.changed \/ changed]

\* the loop body from the result of processCounters on
resolveCounters(m, node, created, N, pc) ==
    IF pc.threw THEN [m |-> Machine(N, m.visited, m.calls, TRUE), changed |-> FALSE]
    ELSE resolveBefore(m, node, pc.changed \/ created, pc.instances,
                       processBefore([N EXCEPT ![node].counters.instances = pc.instances],
                                     node))

\* the loop body from the value source on
resolveValues(m, node, created, cs, vs) ==
    IF vs.threw THEN [m |-> Machine(vs.NODES, m.visited, m.calls, TRUE), changed |-> FALSE]
    ELSE resolveCounters(m, node, created, vs.NODES,
                         processCounters(NodeOrigin(node), vs.NODES[node].counters,
                                         cs.src, vs.src))

\* the loop body from the counter source on
resolveSources(m, node, created, cs) ==
    IF cs.threw THEN [m |-> Machine(cs.NODES, m.visited, m.calls, TRUE), changed |-> FALSE]
    ELSE resolveValues(m, node, created, cs, getValueSource(cs.NODES, node))

\* The body of the for loop of update(): resolve one node
resolveNode(m, node) ==
    resolveSources(m, node, ~m.NODES[node].present,
                   getCounterSource(getState(m.NODES, node), node))

RECURSIVE walk(_, _, _)

\* the for loop after node is resolved and the next node is found
walkNext(roots, node, r, nx) ==
    IF nx.threw
    THEN [m |-> Machine(r.m.NODES, r.m.visited, r.m.calls, TRUE), node |-> node]
    ELSE walk(roots, r.m, nx.node)

\* the for loop after node is resolved
walkOn(roots, node, r) ==
    IF r.m.threw \/ ~r.changed THEN [m |-> r.m, node |-> node]
    ELSE walkNext(roots, node, r, next(roots, node, TRUE))

\* The for loop of update(): the state after it and the value node has then
walk(roots, m, node) ==
    IF node = Nil THEN [m |-> m, node |-> Nil]
    ELSE walkOn(roots, node, resolveNode(m, node))

\* compareNodePositions as a sort order
RECURSIVE sortNodes(_)
sortNodes(dirty) ==
    IF Len(dirty) <= 1 THEN dirty
    ELSE LET first == CHOOSE i \in 1..Len(dirty) :
                          \A j \in 1..Len(dirty) : ~precedes(dirty[j], dirty[i])
         IN  <<dirty[first]>> \o sortNodes(spliceOut(dirty, first - 1))

RECURSIVE dropProcessed(_, _)
\* The trailing while loop of update(): [dirty, threw]
dropProcessed(dirty, node) ==
    IF dirty = <<>> THEN [dirty |-> dirty, threw |-> FALSE]
    ELSE IF node = Nil
    \* ts evaluates isBefore(dirty[0], null), which throws
    THEN [dirty |-> <<>>, threw |-> build = "ts"]
    ELSE IF precedes(dirty[1], node) \/ dirty[1] = node
    THEN dropProcessed(Tail(dirty), node)
    ELSE [dirty |-> dirty, threw |-> FALSE]

RECURSIVE sweep(_, _, _)

\* the outer loop after the trailing while loop
sweepRest(roots, w, d) ==
    IF d.threw THEN Machine(w.m.NODES, w.m.visited, w.m.calls, TRUE)
    ELSE sweep(roots, w.m, d.dirty)

\* the outer loop after the for loop
sweepOn(roots, rest, w) ==
    IF w.m.threw THEN w.m
    ELSE sweepRest(roots, w, dropProcessed(rest, w.node))

\* The outer while loop of update()
sweep(roots, m, dirty) ==
    IF dirty = <<>> THEN m
    ELSE sweepOn(roots, Tail(dirty), walk(roots, m, Head(dirty)))

hasNull(dirty) == \E i \in 1..Len(dirty) : dirty[i] = Nil

\* update that starts every sweep again at the first tracked root
updateFromRoot(roots, m, dirty) ==
    IF hasNull(dirty) /\ Len(dirty) >= 2
    THEN Machine(m.NODES, m.visited, m.calls, TRUE)
    ELSE sweep(roots, m, <<roots[1]>> \o sortNodes(dirty))

\* update(dirty)
updateDirty(roots, m, dirty) ==
    \* the sort comparator throws when it is handed null
    IF hasNull(dirty) /\ Len(dirty) >= 2
    THEN Machine(m.NODES, m.visited, m.calls, TRUE)
    ELSE sweep(roots, m, sortNodes(dirty))

inRoots(roots, node) == \E i \in 1..Len(roots) : roots[i] = node

\* trackRoot that only rejects a node that is a tracked root already
overlapsSameRoot(roots, node) == \E i \in 1..Len(roots) : roots[i] = node

\* The checks of trackRoot(node) that throw
overlapsRoot(roots, node) ==
    \E i \in 1..Len(roots) :
        \/ roots[i] = node
        \/ positionContains(roots[i], node)
        \/ positionContainedBy(roots[i], node)

\* trackRoot(node): the keys of ROOTS and the sweep's outcome
trackRoot(roots, N, node) ==
    IF overlapsRoot(roots, node)
    THEN [ROOTS |-> roots, m |-> Machine(N, <<>>, <<>>, TRUE)]
    ELSE [ROOTS |-> Append(roots, node),
          m |-> updateDirty(Append(roots, node), Machine(N, <<>>, <<>>, FALSE), <<node>>)]

\* The test of setActions(node, ...) that decides whether to sweep
sweepsOnSetActions(roots, node) ==
    \E i \in 1..Len(roots) : roots[i] = node \/ positionContains(roots[i], node)

\* setActions(node, actions, before); before is NoBefore when not given
setActions(roots, N, node, actions, before) ==
    LET N1 == [getState(N, node) EXCEPT ![node].counters.actions = actions,
                                        ![node].before = before]
    IN  IF sweepsOnSetActions(roots, node)
        THEN updateDirty(roots, Machine(N1, <<>>, <<>>, FALSE), <<node>>)
        ELSE Machine(N1, <<>>, <<>>, FALSE)

\* observe(node, notify)
observe(N, node, notify) ==
    LET N1 == [getState(N, node) EXCEPT ![node].listeners = Append(@, notify)]
    IN  Machine(N1, <<>>,
                <<[node |-> node, listener |-> notify,
                   instances |-> N1[node].counters.instances]>>,
                FALSE)

\* the function returned by observe(node, notify)
unobserve(N, node, notify) ==
    Machine([N EXCEPT ![node].listeners = spliceOut(@, findIndex(@, notify))],
            <<>>, <<>>, FALSE)

\* MutationRecord of type childList
MutationRecord(target, added, removed, previousSib) ==
    [target |-> target, added |-> added, removed |-> removed,
     previousSibling |-> previousSib]

addDirty(dirty, node) ==
    IF \E i \in 1..Len(dirty) : dirty[i] = node THEN dirty ELSE Append(dirty, node)

RECURSIVE addAllDirty(_, _, _)
addAllDirty(dirty, ks, i) ==
    IF i > Len(ks) THEN dirty ELSE addAllDirty(addDirty(dirty, ks[i]), ks, i + 1)

RECURSIVE collectDirty(_, _, _, _)
\* The for loop of onMutation(): the dirty set in insertion order
collectDirty(roots, mutations, i, dirty) ==
    IF i > Len(mutations) THEN [dirty |-> dirty, threw |-> FALSE]
    ELSE LET mutation == mutations[i]
             d1 == IF mutation.added # Nil THEN addDirty(dirty, mutation.added) ELSE dirty
             nx == next(roots, mutation.previousSibling, FALSE)
         IN  IF ~mutation.removed THEN collectDirty(roots, mutations, i + 1, d1)
             ELSE IF mutation.previousSibling # Nil
             THEN IF nx.threw THEN [dirty |-> d1, threw |-> TRUE]
                  \* js skips a null next node, ts adds it to the set
                  ELSE IF nx.node = Nil /\ build = "js"
                  THEN collectDirty(roots, mutations, i + 1, d1)
                  ELSE collectDirty(roots, mutations, i + 1, addDirty(d1, nx.node))
             ELSE collectDirty(roots, mutations, i + 1,
                               addAllDirty(d1, kids[mutation.target], 1))

\* the call of update() that ends onMutation()
updateCollected(roots, m, c) ==
    IF c.threw THEN Machine(m.NODES, m.visited, m.calls, TRUE)
    ELSE updateDirty(roots, m, c.dirty)

\* onMutation(mutations)
onMutation(roots, m, mutations) ==
    updateCollected(roots, m, collectDirty(roots, mutations, 1, <<>>))

Sweep(dirty, m) == [dirty |-> dirty, visited |-> m.visited, calls |-> m.calls]

RECURSIVE deliver(_, _, _, _, _, _)
\* the callbacks of the roots after roots[i], whose callback made the sweep r
\* of the dirty nodes d
delivered(roots, queues, i, log, t, d, r) ==
    deliver(roots, r.NODES, queues, i + 1, Append(log, Sweep(d, r)), t \/ r.threw)

\* The mutation observers are notified in the order they were created; an
\* exception of one callback is reported and the next one still runs
deliver(roots, N, queues, i, log, t) ==
    IF i > Len(roots) THEN [NODES |-> N, sweeps |-> log, threw |-> t]
    ELSE IF queues[roots[i]] = <<>> THEN deliver(roots, N, queues, i + 1, log, t)
    ELSE delivered(roots, queues, i, log, t,
                   collectDirty(roots, queues[roots[i]], 1, <<>>).dirty,
                   onMutation(roots, Machine(N, <<>>, <<>>, FALSE), queues[roots[i]]))

RECURSIVE resolveAll(_, _, _)
\* Resolve the nodes of seq in order, without stopping at unchanged nodes
resolveAll(m, seq, i) ==
    IF i > Len(seq) \/ m.threw THEN m
    ELSE resolveAll(resolveNode(m, seq[i]).m, seq, i + 1)

\* A from-scratch resolve of the subtree of root in document order
fullResolve(N, root) ==
    resolveAll(Machine(arrayOf([n \in Nodes |->
                                  IF n \in subtreeSet(root)
                                  THEN [N[n] EXCEPT !.counters.instances = NoInstances,
                                                    !.before.instances = NoInstances]
                                  ELSE N[n]]),
                       <<>>, <<>>, FALSE),
               subtreeSeq(root), 1)

\* How the stacks of the subtree of root compare with the resolve full
compareResolved(N, root, full) ==
    IF full.threw THEN "throws"
    ELSE IF \A n \in subtreeSet(root) :
               N[n].counters.instances = full.NODES[n].counters.instances
    THEN "ok"
    ELSE "stale"

\* How the stacks of the subtree of root compare with a from-scratch resolve
auditRoot(N, root) == compareResolved(N, root, fullResolve(N, root))

\* The stacks of the subtree of root are those of a from-scratch resolve
upToDate(N, root) == auditRoot(N, root) = "ok"

ConsistentOf(roots, N) == \A i \in 1..Len(roots) : upToDate(N, roots[i])

auditOf(roots, N) ==
    arrayOf([n \in Nodes |-> IF inRoots(roots, n) THEN auditRoot(N, n) ELSE "none"])

Consistent == ConsistentOf(ROOTS, NODES)

(***************************************************************************)
(* The formatter: class Style and the Systems.  A string is the sequence   *)
(* of its UTF-16 code units, a list of symbols is a sequence of strings.   *)
(***************************************************************************)
\* Bounds of the formatter's inputs
MaxMagnitude == 21
MaxListLen == 2

\* Numbers with the two infinities, as Range holds them
Num(n) == [inf |-> 0, n |-> n]
Infinity == [inf |-> 1, n |-> 0]
NegInfinity == [inf |-> -1, n |-> 0]
\* a < b
lessThan(a, b) == IF a.inf # b.inf THEN a.inf < b.inf ELSE a.inf = 0 /\ a.n < b.n

\* interface Range
Range(min, max) == [min |-> min, max |-> max]

\* Math.abs(n)
abs(n) == IF n < 0 THEN -n ELSE n
\* a % b of JavaScript for b > 0: the sign of the result is the sign of a
jsRem(a, b) == IF a >= 0 THEN a % b ELSE -((-a) % b)
\* Math.ceil(a / b) for b > 0
ceilDiv(a, b) == -((-a) \div b)

\* What an expression of type string | null evaluates to, or how the
\* evaluation ends otherwise
Formatted(text) == [kind |-> "string", text |-> text]
Null == [kind |-> "null", text |-> <<>>]
Undefined == [kind |-> "undefined", text |-> <<>>]
Throws == [kind |-> "throws", text |-> <<>>]
Hangs == [kind |-> "hangs", text |-> <<>>]

\* the text of String(undefined)
UndefinedText == <<117, 110, 100, 101, 102, 105, 110, 101, 100>>

\* symbols[index]
symbolAt(symbols, index) ==
    IF index >= 0 /\ index < Len(symbols) THEN Formatted(symbols[index + 1])
    ELSE Undefined

\* String.prototype.repeat for a finite count >= 0
repeat(symbol, count) ==
    arrayOf([i \in 1..(count * Len(symbol)) |-> symbol[((i - 1) % Len(symbol)) + 1]])

RECURSIVE join(_, _)
\* Array.prototype.join
join(parts, separator) ==
    IF parts = <<>> THEN <<>>
    ELSE IF Len(parts) = 1 THEN parts[1]
    ELSE parts[1] \o separator \o join(Tail(parts), separator)

RECURSIVE zip(_, _)
\* function *zip(a, b): pairs until the shorter list ends
zip(a, b) ==
    IF a = <<>> \/ b = <<>> THEN <<>>
    ELSE <<<<Head(a), Head(b)>>>> \o zip(Tail(a), Tail(b))

\* The classes implementing System; range is the class's range getter
Cyclic(symbols) ==
    [type |-> "cyclic", symbols |-> symbols, firstValue |-> 1, formal |-> FALSE,
     counters |-> <<>>, range |-> Range(NegInfinity, Infinity)]
Fixed(symbols, firstValue) ==
    [type |-> "fixed", symbols |-> symbols, firstValue |-> firstValue, formal |-> FALSE,
     counters |-> <<>>, range |-> Range(NegInfinity, Infinity)]
Symbolic(symbols) ==
    [type |-> "symbolic", symbols |-> symbols, firstValue |-> 1, formal |-> FALSE,
     counters |-> <<>>, range |-> Range(Num(1), Infinity)]
Alphabetic(symbols) ==
    [type |-> "alphabetic", symbols |-> symbols, firstValue |-> 1, formal |-> FALSE,
     counters |-> <<>>, range |-> Range(Num(1), Infinity)]
Numeric(symbols) ==
    [type |-> "numeric", symbols |-> symbols, firstValue |-> 1, formal |-> FALSE,
     counters |-> <<>>, range |-> Range(NegInfinity, Infinity)]
\* symbols is a list of <<weight, symbol>> pairs
Additive(symbols) ==
    [type |-> "additive", symbols |-> symbols, firstValue |-> 1, formal |-> FALSE,
     counters |-> <<>>, range |-> Range(Num(0), Infinity)]
\* counters[1], [2], [3] are the counters of 10, 100 and 1000
Chinese(formal, digits, counters) ==
    [type |-> "chinese", symbols |-> digits, firstValue |-> 1, formal |-> formal,
     counters |-> counters, range |-> Range(Num(-9999), Num(9999))]
Ethiopic ==
    [type |-> "ethiopic", symbols |-> <<>>, firstValue |-> 1, formal |-> FALSE,
     counters |-> <<>>, range |-> Range(Num(1), Infinity)]

\* Cyclic.format(number)
CyclicFormat(system, number) ==
    symbolAt(system.symbols, abs(jsRem(number - 1, Len(system.symbols))))

\* Fixed.format(number)
FixedFormat(system, number) ==
    LET index == number - system.firstValue
    IN  IF index >= Len(system.symbols) THEN Null
        ELSE symbolAt(system.symbols, number - system.firstValue)

\* Symbolic.format(number)
SymbolicFormat(system, number) ==
    LET index == jsRem(number - 1, Len(system.symbols))
        count == ceilDiv(number, Len(system.symbols))
    IN  IF count > 60 THEN Null
        \* undefined.repeat is a TypeError, repeat(count < 0) a RangeError
        ELSE IF index < 0 \/ count < 0 THEN Throws
        ELSE Formatted(repeat(system.symbols[index + 1], count))

RECURSIVE AlphabeticLoopZero(_, _, _)
\* a loop that does not take one off the number: the first symbol is a zero
AlphabeticLoopZero(symbols, number, result) ==
    IF number > 0
    THEN AlphabeticLoopZero(symbols, number \div Len(symbols),
                            symbols[(number % Len(symbols)) + 1] \o result)
    ELSE result

RECURSIVE AlphabeticLoop(_, _, _)
\* the while loop of Alphabetic.format
AlphabeticLoop(symbols, number, result) ==
    IF number > 0
    THEN AlphabeticLoop(symbols, (number - 1) \div Len(symbols),
                        symbols[((number - 1) % Len(symbols)) + 1] \o result)
    ELSE result

\* Alphabetic.format(number)
AlphabeticFormat(system, number) == Formatted(AlphabeticLoop(system.symbols, number, <<>>))

RECURSIVE NumericLoop(_, _, _)
\* the while loop of Numeric.format for number > 0
NumericLoop(symbols, number, result) ==
    IF number # 0
    THEN NumericLoop(symbols, number \div Len(symbols),
                     symbols[(number % Len(symbols)) + 1] \o result)
    ELSE result

\* a format that gives '' for zero
NumericFormatEmptyZero(system, number) ==
    IF number < 0 \/ Len(system.symbols) = 1 THEN Hangs
    ELSE Formatted(NumericLoop(system.symbols, number, <<>>))

\* Numeric.format(number)
NumericFormat(system, number) ==
    IF number = 0 THEN symbolAt(system.symbols, 0)
    \* Math.floor(number / length) of a negative number stays below zero, and
    \* with one symbol it is the number itself: the loop does not end
    ELSE IF number < 0 \/ Len(system.symbols) = 1 THEN Hangs
    ELSE Formatted(NumericLoop(system.symbols, number, <<>>))

RECURSIVE AdditiveLoopOnce(_, _, _, _)
\* a loop that takes every symbol at most once
AdditiveLoopOnce(symbols, i, value, result) ==
    IF i < Len(symbols) /\ value > 0
    THEN LET weight == symbols[i + 1][1]
             symbol == symbols[i + 1][2]
         IN  IF weight = 0 THEN Throws
             ELSE IF weight <= value
             THEN AdditiveLoopOnce(symbols, i + 1, value - weight, result \o symbol)
             ELSE AdditiveLoopOnce(symbols, i + 1, value, result)
    ELSE IF value # 0 THEN Null
    ELSE Formatted(result)

RECURSIVE AdditiveLoop(_, _, _, _)
\* the for loop of Additive.format and the test that follows it
AdditiveLoop(symbols, i, value, result) ==
    IF i < Len(symbols) /\ value > 0
    THEN LET weight == symbols[i + 1][1]
             symbol == symbols[i + 1][2]
         IN  \* Math.floor(value / 0) is Infinity and repeat(Infinity) throws a
             \* RangeError
             IF weight = 0 THEN Throws
             ELSE AdditiveLoop(symbols, i + 1, value - weight * (value \div weight),
                               result \o repeat(symbol, value \div weight))
    ELSE IF value # 0 THEN Null
    ELSE Formatted(result)

\* Additive.format(value)
AdditiveFormat(system, value) ==
    \* destructuring this.symbols[-1] is a TypeError
    IF value = 0 /\ system.symbols = <<>> THEN Throws
    ELSE IF value = 0 /\ system.symbols[Len(system.symbols)][1] = 0
    THEN Formatted(system.symbols[Len(system.symbols)][2])
    ELSE AdditiveLoop(system.symbols, 0, value, <<>>)

\* Math.pow(10, Math.floor(Math.log10(number))) for number > 0
RECURSIVE powerOfTenBelow(_, _)
powerOfTenBelow(number, mult) ==
    IF mult * 10 > number THEN mult ELSE powerOfTenBelow(number, mult * 10)

\* this.digits[digit] appended to a string
digitText(system, digit) ==
    IF digit >= 0 /\ digit < Len(system.symbols) THEN system.symbols[digit + 1]
    ELSE UndefinedText

\* this.counters[mult] appended to a string
counterText(system, mult) ==
    IF mult = 10 THEN system.counters[1]
    ELSE IF mult = 100 THEN system.counters[2]
    ELSE IF mult = 1000 THEN system.counters[3]
    ELSE UndefinedText

RECURSIVE ChineseLoop(_, _, _, _, _)
\* the for loop of Chinese.format
ChineseLoop(system, number, mult, zero, result) ==
    IF number > 0
    THEN LET digit == number \div mult
         IN  IF digit = 0
             THEN ChineseLoop(system, number % mult, mult \div 10, TRUE, result)
             ELSE ChineseLoop(system, number % mult, mult \div 10, FALSE,
                              result \o (IF zero THEN digitText(system, 0) ELSE <<>>)
                                     \o digitText(system, digit)
                                     \o (IF mult > 1 THEN counterText(system, mult)
                                         ELSE <<>>))
    ELSE result

\* Chinese.format(number)
ChineseFormat(system, number) ==
    IF number = 0 THEN Formatted(digitText(system, 0))
    ELSE IF ~system.formal /\ number = 10 THEN Formatted(counterText(system, 10))
    ELSE IF ~system.formal /\ number >= 10 /\ number < 20
    THEN Formatted(counterText(system, 10) \o digitText(system, number - 10))
    \* Math.log10 of a negative number is NaN and the loop is not entered
    ELSE IF number < 0 THEN Formatted(<<>>)
    ELSE Formatted(ChineseLoop(system, number, powerOfTenBelow(number, 1), FALSE, <<>>))

\* Ethiopic.DIGITS, indexed from 0
EthiopicDIGITS ==
    <<32, 4969, 4970, 4971, 4972, 4973, 4974, 4975, 4976, 4977, 4978,
      32, 4979, 4980, 4981, 4982, 4983, 4984, 4985, 4986>>

\* Ethiopic.DIGITS[index] appended to a string
ethiopicDigit(index) ==
    IF index < Len(EthiopicDIGITS) THEN <<EthiopicDIGITS[index + 1]>> ELSE UndefinedText

RECURSIVE EthiopicLoop(_, _, _)
\* the for loop of Ethiopic.format
EthiopicLoop(inx, number, result) ==
    IF number > 0
    THEN LET group == number % 100
             tens == group \div 10
             ones == group % 10
             skip == \/ group = 0
                     \/ group = 1 /\ number < 100
                     \/ group = 1 /\ inx % 2 = 1
             v == (IF ~skip /\ tens > 0 THEN ethiopicDigit(10 + tens) ELSE <<>>)
                    \o (IF ~skip /\ ones > 0 THEN ethiopicDigit(ones) ELSE <<>>)
                    \o (IF group # 0 /\ inx % 2 = 1 THEN <<4987>> ELSE <<>>)
                    \o (IF inx # 0 /\ inx % 2 = 0 THEN <<4988>> ELSE <<>>)
         IN  EthiopicLoop(inx + 1, number \div 100, v \o result)
    ELSE result

\* Ethiopic.format(number)
EthiopicFormat(system, number) ==
    IF number = 1 THEN Formatted(<<4969>>)
    ELSE Formatted(EthiopicLoop(0, number, <<>>))

\* system.format(number)
systemFormat(system, number) ==
    CASE system.type = "cyclic" -> CyclicFormat(system, number)
      [] system.type = "fixed" -> FixedFormat(system, number)
      [] system.type = "symbolic" -> SymbolicFormat(system, number)
      [] system.type = "alphabetic" -> AlphabeticFormat(system, number)
      [] system.type = "numeric" -> NumericFormat(system, number)
      [] system.type = "additive" -> AdditiveFormat(system, number)
      [] system.type = "chinese" -> ChineseFormat(system, number)
      [] system.type = "ethiopic" -> EthiopicFormat(system, number)

\* a value with the result of typeof
NumberValue(n) == [type |-> "number", value |-> n]
StringValue(text) == [type |-> "string", value |-> text]
ObjectValue(object) == [type |-> "object", value |-> object]

\* interface NegativeSymbol; suffix is None when it is not given
NegativeSymbol(prefix, suffix) == [prefix |-> prefix, suffix |-> suffix]
\* interface Pad
Pad(length, symbol) == [length |-> length, symbol |-> symbol]

\* Array.from(string): the characters as symbols
ArrayFrom(string) == arrayOf([i \in 1..Len(string) |-> <<string[i]>>])

\* the options of the Style constructor and of Style.create; what is left out
\* is None
Options(system, symbols) ==
    [system |-> system, symbols |-> symbols, firstValue |-> None,
     negative |-> None, range |-> Range(None, None), pad |-> None, fallback |-> None]

\* a || b for an optional number
orNumber(a, b) == IF a = None \/ a = Some(Num(0)) THEN b ELSE a[1]

\* new Style(options); FALLBACK is the value of the module's variable FALLBACK
\* at the time of the call, None while it is not assigned
Style(options, FALLBACK) ==
    [system |-> options.system,
     negative |-> IF options.negative = None THEN NegativeSymbol(<<45>>, None)
                  ELSE IF options.negative[1].type = "string"
                  THEN NegativeSymbol(options.negative[1].value, None)
                  ELSE options.negative[1].value,
     range |-> Range(orNumber(options.range.min, options.system.range.min),
                     orNumber(options.range.max, options.system.range.max)),
     pad |-> options.pad,
     fallback |-> IF options.fallback = None THEN FALLBACK ELSE options.fallback]

\* Style.create(options)
create(options, FALLBACK) ==
    Style([options EXCEPT !.system =
               CASE options.system = "cyclic" -> Cyclic(options.symbols)
                 [] options.system = "fixed" ->
                        Fixed(options.symbols,
                              IF options.firstValue = None THEN 1
                              ELSE options.firstValue[1])
                 [] options.system = "symbolic" -> Symbolic(options.symbols)
                 [] options.system = "alphabetic" -> Alphabetic(options.symbols)
                 [] options.system = "numeric" -> Numeric(options.symbols)
                 [] options.system = "additive" -> Additive(options.symbols)],
          FALLBACK)

\* padding that does not count the sign's prefix and suffix
decorateUnsigned(style, value, formatted) ==
    LET length == IF style.pad = None THEN 0
                  ELSE style.pad[1].length - Len(formatted)
        padded == IF length > 0 THEN repeat(style.pad[1].symbol, length) \o formatted
                  ELSE formatted
    IN  IF value < 0
        THEN style.negative.prefix \o padded
                 \o (IF style.negative.suffix = None THEN <<>>
                     ELSE style.negative.suffix[1])
        ELSE padded

\* the padding and the sign decoration of formatNumber
decorate(style, value, formatted) ==
    LET affixes == IF value < 0
                   THEN Len(style.negative.prefix)
                            + (IF style.negative.suffix = None THEN 0
                               ELSE Len(style.negative.suffix[1]))
                   ELSE 0
        length == IF style.pad = None THEN 0
                  ELSE style.pad[1].length - Len(formatted) - affixes
        padded == IF length > 0 THEN repeat(style.pad[1].symbol, length) \o formatted
                  ELSE formatted
    IN  IF value < 0
        THEN style.negative.prefix \o padded
                 \o (IF style.negative.suffix = None THEN <<>>
                     ELSE style.negative.suffix[1])
        ELSE padded

RECURSIVE formatNumber(_, _)
\* this.fallback.formatNumber(value); with this.fallback undefined the call
\* is a TypeError
fallbackFormat(style, value) ==
    IF style.fallback = None THEN Throws
    ELSE formatNumber(style.fallback[1], value)

\* Style.formatNumber(value)
formatNumber(style, value) ==
    LET number == abs(value)
    IN  IF \/ lessThan(Num(number), style.range.min)
           \/ lessThan(style.range.max, Num(number))
        THEN fallbackFormat(style, value)
        ELSE LET formatted == systemFormat(style.system, number)
             IN  IF formatted.kind \in {"throws", "hangs"} THEN formatted
                 ELSE IF formatted.kind \in {"null", "undefined"}
                 THEN fallbackFormat(style, value)
                 ELSE Formatted(decorate(style, value, formatted.text))

RECURSIVE formatEach(_, _, _)
\* value.map(this.formatNumber.bind(this)): the strings, or how the call that
\* does not return ends
formatEach(style, values, done) ==
    IF values = <<>> THEN [kind |-> "string", parts |-> done]
    ELSE LET r == formatNumber(style, Head(values))
         IN  IF r.kind # "string" THEN [kind |-> r.kind, parts |-> done]
             ELSE formatEach(style, Tail(values), Append(done, r.text))

\* formatNumbers that joins with '.' whatever the separator is
formatNumbersDotted(style, values, separator) ==
    LET mapped == formatEach(style, values, <<>>)
    IN  IF mapped.kind # "string" THEN [kind |-> mapped.kind, text |-> <<>>]
        ELSE Formatted(join(mapped.parts, <<46>>))

\* Style.formatNumbers(value, separator)
formatNumbers(style, values, separator) ==
    LET mapped == formatEach(style, values, <<>>)
    IN  IF mapped.kind # "string" THEN [kind |-> mapped.kind, text |-> <<>>]
        ELSE Formatted(join(mapped.parts, separator))

\* Style.format(value, separator = '.'); separator is None when not given
format(style, value, separator) ==
    IF value.type = "number" THEN formatNumber(style, value.value)
    ELSE formatNumbers(style, value.value,
                       IF separator = None THEN <<46>> ELSE separator[1])

\* The counter styles of CSS Counter Styles Level 3 that the module defines,
\* under the names of its const declarations, and the exported Styles
Styles ==
    LET FALLBACK == create(Options("numeric", ArrayFrom(<<48, 49, 50, 51, 52, 53, 54, 55, 56,
            57>>)), None)
        decimal_leading_zero == Style([Options(FALLBACK.system, <<>>) EXCEPT !.pad = Some(Pad(2,
            <<48>>))], Some(FALLBACK))
        arabic_indic == create(Options("numeric", ArrayFrom(<<1632, 1633, 1634, 1635, 1636,
            1637, 1638, 1639, 1640, 1641>>)), Some(FALLBACK))
        ARMENIAN_WEIGHTS == <<9000, 8000, 7000, 6000, 5000, 4000, 3000, 2000, 1000, 900, 800,
            700, 600, 500, 400, 300, 200, 100, 90, 80, 70, 60, 50, 40, 30, 20, 10, 9, 8, 7, 6, 5, 4,
            3, 2, 1>>
        armenian == create([Options("additive", zip(ARMENIAN_WEIGHTS, ArrayFrom(<<1364, 1363,
            1362, 1361, 1360, 1359, 1358, 1357, 1356, 1355, 1354, 1353, 1352, 1351, 1350, 1349,
            1348, 1347, 1346, 1345, 1344, 1343, 1342, 1341, 1340, 1339, 1338, 1337, 1336, 1335,
            1334, 1333, 1332, 1331, 1330, 1329>>))) EXCEPT !.range = Range(Some(Num(1)),
            Some(Num(9999)))], Some(FALLBACK))
        lower_armenian == create([Options("additive", zip(ARMENIAN_WEIGHTS, ArrayFrom(<<1412,
            1411, 1410, 1409, 1408, 1407, 1406, 1405, 1404, 1403, 1402, 1401, 1400, 1399, 1398,
            1397, 1396, 1395, 1394, 1393, 1392, 1391, 1390, 1389, 1388, 1387, 1386, 1385, 1384,
            1383, 1382, 1381, 1380, 1379, 1378, 1377>>))) EXCEPT !.range = Range(Some(Num(1)),
            Some(Num(9999)))], Some(FALLBACK))
        bengali == create(Options("numeric", ArrayFrom(<<2534, 2535, 2536, 2537, 2538, 2539,
            2540, 2541, 2542, 2543>>)), Some(FALLBACK))
        cambodian == create(Options("numeric", ArrayFrom(<<6112, 6113, 6114, 6115, 6116, 6117,
            6118, 6119, 6120, 6121>>)), Some(FALLBACK))
        cjk_decimal == create([Options("numeric", ArrayFrom(<<12295, 19968, 20108, 19977, 22235,
            20116, 20845, 19971, 20843, 20061>>)) EXCEPT !.range = Range(Some(Num(0)),
            Some(Infinity))], Some(FALLBACK))
        devanagari == create(Options("numeric", ArrayFrom(<<2406, 2407, 2408, 2409, 2410, 2411,
            2412, 2413, 2414, 2415>>)), Some(FALLBACK))
        georgian == create([Options("additive", zip(<<10000, 9000, 8000, 7000, 6000, 5000, 4000,
            3000, 2000, 1000, 900, 800, 700, 600, 500, 400, 300, 200, 100, 90, 80, 70, 60, 50, 40,
            30, 20, 10, 9, 8, 7, 6, 5, 4, 2, 1>>, ArrayFrom(<<4341, 4336, 4335, 4340, 4334, 4333,
            4332, 4331, 4330, 4329, 4328, 4327, 4326, 4325, 4324, 4339, 4322, 4321, 4320, 4319,
            4318, 4317, 4338, 4316, 4315, 4314, 4313, 4312, 4311, 4337, 4310, 4309, 4308, 4307,
            4306, 4305, 4304>>))) EXCEPT !.range = Range(Some(Num(1)), Some(Num(19999)))],
            Some(FALLBACK))
        gujarati == create(Options("numeric", ArrayFrom(<<2790, 2791, 2792, 2793, 2794, 2795,
            2796, 2797, 2798, 2799>>)), Some(FALLBACK))
        gurmukhi == create(Options("numeric", ArrayFrom(<<2662, 2663, 2664, 2665, 2666, 2667,
            2668, 2669, 2670, 2671>>)), Some(FALLBACK))
        hebrew == create([Options("additive", zip(<<10000, 9000, 8000, 7000, 6000, 5000, 4000,
            3000, 2000, 1000, 400, 300, 200, 100, 90, 80, 70, 60, 50, 40, 30, 20, 19, 18, 17, 16,
            15, 10, 9, 8, 7, 6, 5, 4, 3, 2, 1>>, <<<<1497, 1523>>, <<1496, 1523>>, <<1495, 1523>>,
            <<1494, 1523>>, <<1493, 1523>>, <<1492, 1523>>, <<1491, 1523>>, <<1490, 1523>>, <<1489,
            1523>>, <<1488, 1523>>, <<1514>>, <<1513>>, <<1512>>, <<1511>>, <<1510>>, <<1508>>,
            <<1506>>, <<1505>>, <<1504>>, <<1502>>, <<1500>>, <<1499>>, <<1497, 1496>>, <<1497,
            1495>>, <<1497, 1494>>, <<1496, 1494>>, <<1496, 1493>>, <<1497>>, <<1496>>, <<1495>>,
            <<1494>>, <<1493>>, <<1492>>, <<1491>>, <<1490>>, <<1489>>, <<1488>>>>)) EXCEPT !.range
            = Range(Some(Num(1)), Some(Num(10999)))], Some(FALLBACK))
        kannada == create(Options("numeric", ArrayFrom(<<3302, 3303, 3304, 3305, 3306, 3307,
            3308, 3309, 3310, 3311>>)), Some(FALLBACK))
        lao == create(Options("numeric", ArrayFrom(<<3792, 3793, 3794, 3795, 3796, 3797, 3798,
            3799, 3800, 3801>>)), Some(FALLBACK))
        malayalam == create(Options("numeric", ArrayFrom(<<3430, 3431, 3432, 3433, 3434, 3435,
            3436, 3437, 3438, 3439>>)), Some(FALLBACK))
        mongolian == create(Options("numeric", ArrayFrom(<<6160, 6161, 6162, 6163, 6164, 6165,
            6166, 6167, 6168, 6169>>)), Some(FALLBACK))
        myanmar == create(Options("numeric", ArrayFrom(<<4160, 4161, 4162, 4163, 4164, 4165,
            4166, 4167, 4168, 4169>>)), Some(FALLBACK))
        oriya == create(Options("numeric", ArrayFrom(<<2918, 2919, 2920, 2921, 2922, 2923, 2924,
            2925, 2926, 2927>>)), Some(FALLBACK))
        persian == create(Options("numeric", ArrayFrom(<<1776, 1777, 1778, 1779, 1780, 1781,
            1782, 1783, 1784, 1785>>)), Some(FALLBACK))
        ROMAN_WEIGHTS == <<1000, 900, 500, 400, 100, 90, 50, 40, 10, 9, 5, 4, 1>>
        lower_roman == create([Options("additive", zip(ROMAN_WEIGHTS, <<<<109>>, <<99, 109>>,
            <<100>>, <<99, 100>>, <<99>>, <<120, 99>>, <<108>>, <<120, 108>>, <<120>>, <<105, 120>>,
            <<118>>, <<105, 118>>, <<105>>>>)) EXCEPT !.range = Range(Some(Num(1)),
            Some(Num(3999)))], Some(FALLBACK))
        upper_roman == create([Options("additive", zip(ROMAN_WEIGHTS, <<<<77>>, <<67, 77>>,
            <<68>>, <<67, 68>>, <<67>>, <<88, 67>>, <<76>>, <<88, 76>>, <<88>>, <<73, 88>>, <<86>>,
            <<73, 86>>, <<73>>>>)) EXCEPT !.range = Range(Some(Num(1)), Some(Num(3999)))],
            Some(FALLBACK))
        tamil == create(Options("numeric", ArrayFrom(<<3046, 3047, 3048, 3049, 3050, 3051, 3052,
            3053, 3054, 3055>>)), Some(FALLBACK))
        telugu == create(Options("numeric", ArrayFrom(<<3174, 3175, 3176, 3177, 3178, 3179,
            3180, 3181, 3182, 3183>>)), Some(FALLBACK))
        thai == create(Options("numeric", ArrayFrom(<<3664, 3665, 3666, 3667, 3668, 3669, 3670,
            3671, 3672, 3673>>)), Some(FALLBACK))
        tibetan == create(Options("numeric", ArrayFrom(<<3872, 3873, 3874, 3875, 3876, 3877,
            3878, 3879, 3880, 3881>>)), Some(FALLBACK))
        lower_alpha == create(Options("alphabetic", ArrayFrom(<<97, 98, 99, 100, 101, 102, 103,
            104, 105, 106, 107, 108, 109, 110, 111, 112, 113, 114, 115, 116, 117, 118, 119, 120,
            121, 122>>)), Some(FALLBACK))
        upper_alpha == create(Options("alphabetic", ArrayFrom(<<65, 66, 67, 68, 69, 70, 71, 72,
            73, 74, 75, 76, 77, 78, 79, 80, 81, 82, 83, 84, 85, 86, 87, 88, 89, 90>>)),
            Some(FALLBACK))
        lower_greek == create(Options("alphabetic", ArrayFrom(<<945, 946, 947, 948, 949, 950,
            951, 952, 953, 954, 955, 956, 957, 958, 959, 960, 961, 963, 964, 965, 966, 967, 968,
            969>>)), Some(FALLBACK))
        hiragana == create(Options("alphabetic", ArrayFrom(<<12354, 12356, 12358, 12360, 12362,
            12363, 12365, 12367, 12369, 12371, 12373, 12375, 12377, 12379, 12381, 12383, 12385,
            12388, 12390, 12392, 12394, 12395, 12396, 12397, 12398, 12399, 12402, 12405, 12408,
            12411, 12414, 12415, 12416, 12417, 12418, 12420, 12422, 12424, 12425, 12426, 12427,
            12428, 12429, 12431, 12432, 12433, 12434, 12435>>)), Some(FALLBACK))
        hiragana_iroha == create(Options("alphabetic", ArrayFrom(<<12356, 12429, 12399, 12395,
            12411, 12408, 12392, 12385, 12426, 12396, 12427, 12434, 12431, 12363, 12424, 12383,
            12428, 12381, 12388, 12397, 12394, 12425, 12416, 12358, 12432, 12398, 12362, 12367,
            12420, 12414, 12369, 12405, 12371, 12360, 12390, 12354, 12373, 12365, 12422, 12417,
            12415, 12375, 12433, 12402, 12418, 12379, 12377>>)), Some(FALLBACK))
        katakana == create(Options("alphabetic", ArrayFrom(<<12450, 12452, 12454, 12456, 12458,
            12459, 12461, 12463, 12465, 12467, 12469, 12471, 12473, 12475, 12477, 12479, 12481,
            12484, 12486, 12488, 12490, 12491, 12492, 12493, 12494, 12495, 12498, 12501, 12504,
            12507, 12510, 12511, 12512, 12513, 12514, 12516, 12518, 12520, 12521, 12522, 12523,
            12524, 12525, 12527, 12528, 12529, 12530, 12531>>)), Some(FALLBACK))
        katakana_iroha == create(Options("alphabetic", ArrayFrom(<<12452, 12525, 12495, 12491,
            12507, 12504, 12488, 12481, 12522, 12492, 12523, 12530, 12527, 12459, 12520, 12479,
            12524, 12477, 12484, 12493, 12490, 12521, 12512, 12454, 12528, 12494, 12458, 12463,
            12516, 12510, 12465, 12501, 12467, 12456, 12486, 12450, 12469, 12461, 12518, 12513,
            12511, 12471, 12529, 12498, 12514, 12475, 12473>>)), Some(FALLBACK))
        disc == create(Options("cyclic", ArrayFrom(<<8226>>)), Some(FALLBACK))
        circle == create(Options("cyclic", ArrayFrom(<<9702>>)), Some(FALLBACK))
        square == create(Options("cyclic", ArrayFrom(<<9726>>)), Some(FALLBACK))
        cjk_earthly_branch == create(Options("fixed", ArrayFrom(<<23376, 19985, 23493, 21359,
            36784, 24051, 21320, 26410, 30003, 37193>>)), Some(FALLBACK))
        cjk_heavenly_stem == create(Options("fixed", ArrayFrom(<<30002, 20057, 19993, 19969,
            25098, 24049, 24218, 36763, 22764, 30328>>)), Some(FALLBACK))
        JAPANESE_WEIGHTS == <<9000, 8000, 7000, 6000, 5000, 4000, 3000, 2000, 1000, 900, 800,
            700, 600, 500, 400, 300, 200, 100, 90, 80, 70, 60, 50, 40, 30, 20, 10, 9, 8, 7, 6, 5, 4,
            3, 2, 1>>
        japanese_informal == create([Options("additive", zip(JAPANESE_WEIGHTS, <<<<20061,
            21315>>, <<20843, 21315>>, <<19971, 21315>>, <<20845, 21315>>, <<20116, 21315>>,
            <<22235, 21315>>, <<19977, 21315>>, <<20108, 21315>>, <<21315>>, <<20061, 30334>>,
            <<20843, 30334>>, <<19971, 30334>>, <<20845, 30334>>, <<20116, 30334>>, <<22235,
            30334>>, <<19977, 30334>>, <<20108, 30334>>, <<30334>>, <<20061, 21313>>, <<20843,
            21313>>, <<19971, 21313>>, <<20845, 21313>>, <<20116, 21313>>, <<22235, 21313>>,
            <<19977, 21313>>, <<20108, 21313>>, <<21313>>, <<20061>>, <<20843>>, <<19971>>,
            <<20845>>, <<20116>>, <<22235>>, <<19977>>, <<20108>>, <<19968>>, <<12295>>>>)) EXCEPT
            !.negative = Some(StringValue(<<12510, 12452, 12490, 12473>>)), !.range =
            Range(Some(Num(-9999)), Some(Num(9999))), !.fallback = Some(cjk_decimal)],
            Some(FALLBACK))
        japanese_formal == create([Options("additive", zip(JAPANESE_WEIGHTS, <<<<20061, 38433>>,
            <<20843, 38433>>, <<19971, 38433>>, <<20845, 38433>>, <<20237, 38433>>, <<22235,
            38433>>, <<21442, 38433>>, <<24336, 38433>>, <<22769, 38433>>, <<20061, 30334>>,
            <<20843, 30334>>, <<19971, 30334>>, <<20845, 30334>>, <<20237, 30334>>, <<22235,
            30334>>, <<21442, 30334>>, <<24336, 30334>>, <<22769, 30334>>, <<20061, 25342>>,
            <<20843, 25342>>, <<19971, 25342>>, <<20845, 25342>>, <<20237, 25342>>, <<22235,
            25342>>, <<21442, 25342>>, <<24336, 25342>>, <<22769, 25342>>, <<20061>>, <<20843>>,
            <<19971>>, <<20845>>, <<20237>>, <<22235>>, <<21442>>, <<24336>>, <<22769>>,
            <<38646>>>>)) EXCEPT !.negative = Some(StringValue(<<12510, 12452, 12490, 12473>>)),
            !.range = Range(Some(Num(-9999)), Some(Num(9999))), !.fallback = Some(cjk_decimal)],
            Some(FALLBACK))
        KOREAN_WEIGHTS == <<9000, 8000, 7000, 6000, 5000, 4000, 3000, 2000, 1000, 900, 800, 700,
            600, 500, 400, 300, 200, 100, 90, 80, 70, 60, 50, 40, 30, 20, 10, 9, 8, 7, 6, 5, 4, 3,
            2, 1, 0>>
        korean_hangul_formal == create([Options("additive", zip(KOREAN_WEIGHTS, <<<<44396,
            52380>>, <<54036, 52380>>, <<52832, 52380>>, <<50977, 52380>>, <<50724, 52380>>,
            <<49324, 52380>>, <<49340, 52380>>, <<51060, 52380>>, <<51068, 52380>>, <<44396,
            48177>>, <<54036, 48177>>, <<52832, 48177>>, <<50977, 48177>>, <<50724, 48177>>,
            <<49324, 48177>>, <<49340, 48177>>, <<51060, 48177>>, <<51068, 48177>>, <<44396,
            49901>>, <<54036, 49901>>, <<52832, 49901>>, <<50977, 49901>>, <<50724, 49901>>,
            <<49324, 49901>>, <<49340, 49901>>, <<51060, 49901>>, <<51068, 49901>>, <<44396>>,
            <<54036>>, <<52832>>, <<50977>>, <<50724>>, <<49324>>, <<49340>>, <<51060>>, <<51068>>,
            <<50689>>>>)) EXCEPT !.negative = Some(StringValue(<<47560, 51060, 45320, 49828, 32>>)),
            !.range = Range(Some(Num(-9999)), Some(Num(9999)))], Some(FALLBACK))
        korean_hanja_informal == create([Options("additive", zip(KOREAN_WEIGHTS, <<<<20061,
            21315>>, <<20843, 21315>>, <<19971, 21315>>, <<20845, 21315>>, <<20116, 21315>>,
            <<22235, 21315>>, <<19977, 21315>>, <<20108, 21315>>, <<21315>>, <<20061, 30334>>,
            <<20843, 30334>>, <<19971, 30334>>, <<20845, 30334>>, <<20116, 30334>>, <<22235,
            30334>>, <<19977, 30334>>, <<20108, 30334>>, <<30334>>, <<20061, 21313>>, <<20843,
            21313>>, <<19971, 21313>>, <<20845, 21313>>, <<20116, 21313>>, <<22235, 21313>>,
            <<19977, 21313>>, <<20108, 21313>>, <<21313>>, <<20061>>, <<20843>>, <<19971>>,
            <<20845>>, <<20116>>, <<22235>>, <<19977>>, <<20108>>, <<19968>>, <<38646>>>>)) EXCEPT
            !.negative = Some(StringValue(<<47560, 51060, 45320, 49828, 32>>)), !.range =
            Range(Some(Num(-9999)), Some(Num(9999)))], Some(FALLBACK))
        korean_hanja_formal == create([Options("additive", zip(KOREAN_WEIGHTS, <<<<20061,
            20191>>, <<20843, 20191>>, <<19971, 20191>>, <<20845, 20191>>, <<20116, 20191>>,
            <<22235, 20191>>, <<21443, 20191>>, <<36019, 20191>>, <<22777, 20191>>, <<20061,
            30334>>, <<20843, 30334>>, <<19971, 30334>>, <<20845, 30334>>, <<20116, 30334>>,
            <<22235, 30334>>, <<21443, 30334>>, <<36019, 30334>>, <<22777, 30334>>, <<20061,
            25342>>, <<20843, 25342>>, <<19971, 25342>>, <<20845, 25342>>, <<20116, 25342>>,
            <<22235, 25342>>, <<21443, 25342>>, <<36019, 25342>>, <<22777, 25342>>, <<20061>>,
            <<20843>>, <<19971>>, <<20845>>, <<20116>>, <<22235>>, <<21443>>, <<36019>>, <<22777>>,
            <<38646>>>>)) EXCEPT !.negative = Some(StringValue(<<47560, 51060, 45320, 49828, 32>>)),
            !.range = Range(Some(Num(-9999)), Some(Num(9999)))], Some(FALLBACK))
        simp_chinese_informal == Style([Options(Chinese(FALSE, ArrayFrom(<<38646, 19968, 20108,
            19977, 22235, 20116, 20845, 19971, 20843, 20061>>), ArrayFrom(<<21313, 30334, 21315>>)),
            <<>>) EXCEPT !.negative = Some(StringValue(<<36127>>)), !.fallback = Some(cjk_decimal)],
            Some(FALLBACK))
        simp_chinese_formal == Style([Options(Chinese(TRUE, ArrayFrom(<<38646, 22777, 36144,
            20929, 32902, 20237, 38470, 26578, 25420, 29590>>), ArrayFrom(<<25342, 20336, 20191>>)),
            <<>>) EXCEPT !.negative = Some(StringValue(<<36127>>)), !.fallback = Some(cjk_decimal)],
            Some(FALLBACK))
        trad_chinese_informal == Style([Options(Chinese(FALSE, ArrayFrom(<<38646, 19968, 20108,
            19977, 22235, 20116, 20845, 19971, 20843, 20061>>), ArrayFrom(<<21313, 30334, 21315>>)),
            <<>>) EXCEPT !.negative = Some(StringValue(<<36000>>)), !.fallback = Some(cjk_decimal)],
            Some(FALLBACK))
        trad_chinese_formal == Style([Options(Chinese(TRUE, ArrayFrom(<<38646, 22777, 36019,
            21443, 32902, 20237, 38520, 26578, 25420, 29590>>), ArrayFrom(<<25342, 20336, 20191>>)),
            <<>>) EXCEPT !.negative = Some(StringValue(<<36000>>)), !.fallback = Some(cjk_decimal)],
            Some(FALLBACK))
        ethiopic_numeric == Style(Options(Ethiopic, <<>>), Some(FALLBACK))
    IN  ("armenian" :> armenian) @@ ("bengali" :> bengali) @@ ("cambodian" :> cambodian) @@
        ("devanagari" :> devanagari) @@ ("georgian" :> georgian) @@ ("gujarati" :> gujarati) @@
        ("gurmukhi" :> gurmukhi) @@ ("hebrew" :> hebrew) @@ ("kannada" :> kannada) @@ ("lao" :> lao)
        @@ ("malayalam" :> malayalam) @@ ("mongolian" :> mongolian) @@ ("myanmar" :> myanmar) @@
        ("oriya" :> oriya) @@ ("persian" :> persian) @@ ("tamil" :> tamil) @@ ("telugu" :> telugu)
        @@ ("thai" :> thai) @@ ("tibetan" :> tibetan) @@ ("hiragana" :> hiragana) @@ ("katakana" :>
        katakana) @@ ("disc" :> disc) @@ ("circle" :> circle) @@ ("square" :> square) @@ ("decimal"
        :> FALLBACK) @@ ("decimal-leading-zero" :> decimal_leading_zero) @@ ("arabic-indic" :>
        arabic_indic) @@ ("upper-armenian" :> armenian) @@ ("lower-armenian" :> lower_armenian) @@
        ("khmer" :> cambodian) @@ ("cjk-decimal" :> cjk_decimal) @@ ("lower-roman" :> lower_roman)
        @@ ("upper-roman" :> upper_roman) @@ ("lower-alpha" :> lower_alpha) @@ ("upper-alpha" :>
        upper_alpha) @@ ("lower-latin" :> lower_alpha) @@ ("upper-latin" :> upper_alpha) @@
        ("hiragana-iroha" :> hiragana_iroha) @@ ("katakana-iroha" :> katakana_iroha) @@
        ("cjk-earthly-branch" :> cjk_earthly_branch) @@ ("cjk-heavenly-stem" :> cjk_heavenly_stem)
        @@ ("lower-greek" :> lower_greek) @@ ("japanese-formal" :> japanese_formal) @@
        ("japanese-informal" :> japanese_informal) @@ ("korean-hangul-formal" :>
        korean_hangul_formal) @@ ("korean-hanja-informal" :> korean_hanja_informal) @@
        ("korean-hanja-formal" :> korean_hanja_formal) @@ ("simp-chinese-informal" :>
        simp_chinese_informal) @@ ("simp-chinese-formal" :> simp_chinese_formal) @@
        ("trad-chinese-informal" :> trad_chinese_informal) @@ ("trad-chinese-formal" :>
        trad_chinese_formal) @@ ("ethiopic-numeric" :> ethiopic_numeric)

\* Styles a caller makes with Style.create: the style and the systems of the
\* package's tests, and the additive system of the tests without the weights
\* 7 and 1
UserStyles ==
    LET FALLBACK == Some(Styles["decimal"])
    IN  ("test numeric" :>
            create([Options("numeric", ArrayFrom(<<97, 98, 99>>)) EXCEPT
                       !.range = Range(Some(Num(0)), Some(Num(7))),
                       !.negative = Some(ObjectValue(NegativeSymbol(<<40>>, Some(<<41>>)))),
                       !.pad = Some(Pad(4, <<32>>))], FALLBACK))
        @@ ("test symbolic" :>
            create([Options("symbolic", ArrayFrom(<<97>>)) EXCEPT
                       !.pad = Some(Pad(2, <<45>>))], FALLBACK))
        @@ ("test cyclic" :> create(Options("cyclic", ArrayFrom(<<97, 98>>)), FALLBACK))
        @@ ("test fixed" :>
            create([Options("fixed", ArrayFrom(<<97, 98, 99>>)) EXCEPT
                       !.firstValue = Some(2)], FALLBACK))
        @@ ("test alphabetic" :>
            create(Options("alphabetic", ArrayFrom(<<97, 98, 99>>)), FALLBACK))
        @@ ("test additive" :>
            create(Options("additive", <<<<7, <<97>>>>, <<5, <<98>>>>, <<3, <<99>>>>,
                                         <<1, <<101>>>>, <<0, <<102>>>>>>), FALLBACK))
        @@ ("odd additive" :>
            create(Options("additive", <<<<5, <<98>>>>, <<3, <<99>>>>, <<0, <<102>>>>>>),
                   FALLBACK))

\* every Style of the model, by name
AllStyles == Styles @@ UserStyles

\* The two lists handed to zip for each built-in additive Style: a the
\* weights, b the symbols
ZipArguments ==
       ("armenian" :> [a |-> <<9000, 8000, 7000, 6000, 5000, 4000, 3000, 2000, 1000, 900, 800,
            700, 600, 500, 400, 300, 200, 100, 90, 80, 70, 60, 50, 40, 30, 20, 10, 9, 8, 7, 6, 5, 4,
            3, 2, 1>>, b |-> ArrayFrom(<<1364, 1363, 1362, 1361, 1360, 1359, 1358, 1357, 1356, 1355,
            1354, 1353, 1352, 1351, 1350, 1349, 1348, 1347, 1346, 1345, 1344, 1343, 1342, 1341,
            1340, 1339, 1338, 1337, 1336, 1335, 1334, 1333, 1332, 1331, 1330, 1329>>)])
    @@ ("georgian" :> [a |-> <<10000, 9000, 8000, 7000, 6000, 5000, 4000, 3000, 2000, 1000,
            900, 800, 700, 600, 500, 400, 300, 200, 100, 90, 80, 70, 60, 50, 40, 30, 20, 10, 9, 8,
            7, 6, 5, 4, 2, 1>>, b |-> ArrayFrom(<<4341, 4336, 4335, 4340, 4334, 4333, 4332, 4331,
            4330, 4329, 4328, 4327, 4326, 4325, 4324, 4339, 4322, 4321, 4320, 4319, 4318, 4317,
            4338, 4316, 4315, 4314, 4313, 4312, 4311, 4337, 4310, 4309, 4308, 4307, 4306, 4305,
            4304>>)])
    @@ ("hebrew" :> [a |-> <<10000, 9000, 8000, 7000, 6000, 5000, 4000, 3000, 2000, 1000, 400,
            300, 200, 100, 90, 80, 70, 60, 50, 40, 30, 20, 19, 18, 17, 16, 15, 10, 9, 8, 7, 6, 5, 4,
            3, 2, 1>>, b |-> <<<<1497, 1523>>, <<1496, 1523>>, <<1495, 1523>>, <<1494, 1523>>,
            <<1493, 1523>>, <<1492, 1523>>, <<1491, 1523>>, <<1490, 1523>>, <<1489, 1523>>, <<1488,
            1523>>, <<1514>>, <<1513>>, <<1512>>, <<1511>>, <<1510>>, <<1508>>, <<1506>>, <<1505>>,
            <<1504>>, <<1502>>, <<1500>>, <<1499>>, <<1497, 1496>>, <<1497, 1495>>, <<1497, 1494>>,
            <<1496, 1494>>, <<1496, 1493>>, <<1497>>, <<1496>>, <<1495>>, <<1494>>, <<1493>>,
            <<1492>>, <<1491>>, <<1490>>, <<1489>>, <<1488>>>>])
    @@ ("upper-armenian" :> [a |-> <<9000, 8000, 7000, 6000, 5000, 4000, 3000, 2000, 1000, 900,
            800, 700, 600, 500, 400, 300, 200, 100, 90, 80, 70, 60, 50, 40, 30, 20, 10, 9, 8, 7, 6,
            5, 4, 3, 2, 1>>, b |-> ArrayFrom(<<1364, 1363, 1362, 1361, 1360, 1359, 1358, 1357, 1356,
            1355, 1354, 1353, 1352, 1351, 1350, 1349, 1348, 1347, 1346, 1345, 1344, 1343, 1342,
            1341, 1340, 1339, 1338, 1337, 1336, 1335, 1334, 1333, 1332, 1331, 1330, 1329>>)])
    @@ ("lower-armenian" :> [a |-> <<9000, 8000, 7000, 6000, 5000, 4000, 3000, 2000, 1000, 900,
            800, 700, 600, 500, 400, 300, 200, 100, 90, 80, 70, 60, 50, 40, 30, 20, 10, 9, 8, 7, 6,
            5, 4, 3, 2, 1>>, b |-> ArrayFrom(<<1412, 1411, 1410, 1409, 1408, 1407, 1406, 1405, 1404,
            1403, 1402, 1401, 1400, 1399, 1398, 1397, 1396, 1395, 1394, 1393, 1392, 1391, 1390,
            1389, 1388, 1387, 1386, 1385, 1384, 1383, 1382, 1381, 1380, 1379, 1378, 1377>>)])
    @@ ("lower-roman" :> [a |-> <<1000, 900, 500, 400, 100, 90, 50, 40, 10, 9, 5, 4, 1>>, b |->
            <<<<109>>, <<99, 109>>, <<100>>, <<99, 100>>, <<99>>, <<120, 99>>, <<108>>, <<120,
            108>>, <<120>>, <<105, 120>>, <<118>>, <<105, 118>>, <<105>>>>])
    @@ ("upper-roman" :> [a |-> <<1000, 900, 500, 400, 100, 90, 50, 40, 10, 9, 5, 4, 1>>, b |->
            <<<<77>>, <<67, 77>>, <<68>>, <<67, 68>>, <<67>>, <<88, 67>>, <<76>>, <<88, 76>>,
            <<88>>, <<73, 88>>, <<86>>, <<73, 86>>, <<73>>>>])
    @@ ("japanese-formal" :> [a |-> <<9000, 8000, 7000, 6000, 5000, 4000, 3000, 2000, 1000,
            900, 800, 700, 600, 500, 400, 300, 200, 100, 90, 80, 70, 60, 50, 40, 30, 20, 10, 9, 8,
            7, 6, 5, 4, 3, 2, 1>>, b |-> <<<<20061, 38433>>, <<20843, 38433>>, <<19971, 38433>>,
            <<20845, 38433>>, <<20237, 38433>>, <<22235, 38433>>, <<21442, 38433>>, <<24336,
            38433>>, <<22769, 38433>>, <<20061, 30334>>, <<20843, 30334>>, <<19971, 30334>>,
            <<20845, 30334>>, <<20237, 30334>>, <<22235, 30334>>, <<21442, 30334>>, <<24336,
            30334>>, <<22769, 30334>>, <<20061, 25342>>, <<20843, 25342>>, <<19971, 25342>>,
            <<20845, 25342>>, <<20237, 25342>>, <<22235, 25342>>, <<21442, 25342>>, <<24336,
            25342>>, <<22769, 25342>>, <<20061>>, <<20843>>, <<19971>>, <<20845>>, <<20237>>,
            <<22235>>, <<21442>>, <<24336>>, <<22769>>, <<38646>>>>])
    @@ ("japanese-informal" :> [a |-> <<9000, 8000, 7000, 6000, 5000, 4000, 3000, 2000, 1000,
            900, 800, 700, 600, 500, 400, 300, 200, 100, 90, 80, 70, 60, 50, 40, 30, 20, 10, 9, 8,
            7, 6, 5, 4, 3, 2, 1>>, b |-> <<<<20061, 21315>>, <<20843, 21315>>, <<19971, 21315>>,
            <<20845, 21315>>, <<20116, 21315>>, <<22235, 21315>>, <<19977, 21315>>, <<20108,
            21315>>, <<21315>>, <<20061, 30334>>, <<20843, 30334>>, <<19971, 30334>>, <<20845,
            30334>>, <<20116, 30334>>, <<22235, 30334>>, <<19977, 30334>>, <<20108, 30334>>,
            <<30334>>, <<20061, 21313>>, <<20843, 21313>>, <<19971, 21313>>, <<20845, 21313>>,
            <<20116, 21313>>, <<22235, 21313>>, <<19977, 21313>>, <<20108, 21313>>, <<21313>>,
            <<20061>>, <<20843>>, <<19971>>, <<20845>>, <<20116>>, <<22235>>, <<19977>>, <<20108>>,
            <<19968>>, <<12295>>>>])
    @@ ("korean-hangul-formal" :> [a |-> <<9000, 8000, 7000, 6000, 5000, 4000, 3000, 2000,
            1000, 900, 800, 700, 600, 500, 400, 300, 200, 100, 90, 80, 70, 60, 50, 40, 30, 20, 10,
            9, 8, 7, 6, 5, 4, 3, 2, 1, 0>>, b |-> <<<<44396, 52380>>, <<54036, 52380>>, <<52832,
            52380>>, <<50977, 52380>>, <<50724, 52380>>, <<49324, 52380>>, <<49340, 52380>>,
            <<51060, 52380>>, <<51068, 52380>>, <<44396, 48177>>, <<54036, 48177>>, <<52832,
            48177>>, <<50977, 48177>>, <<50724, 48177>>, <<49324, 48177>>, <<49340, 48177>>,
            <<51060, 48177>>, <<51068, 48177>>, <<44396, 49901>>, <<54036, 49901>>, <<52832,
            49901>>, <<50977, 49901>>, <<50724, 49901>>, <<49324, 49901>>, <<49340, 49901>>,
            <<51060, 49901>>, <<51068, 49901>>, <<44396>>, <<54036>>, <<52832>>, <<50977>>,
            <<50724>>, <<49324>>, <<49340>>, <<51060>>, <<51068>>, <<50689>>>>])
    @@ ("korean-hanja-informal" :> [a |-> <<9000, 8000, 7000, 6000, 5000, 4000, 3000, 2000,
            1000, 900, 800, 700, 600, 500, 400, 300, 200, 100, 90, 80, 70, 60, 50, 40, 30, 20, 10,
            9, 8, 7, 6, 5, 4, 3, 2, 1, 0>>, b |-> <<<<20061, 21315>>, <<20843, 21315>>, <<19971,
            21315>>, <<20845, 21315>>, <<20116, 21315>>, <<22235, 21315>>, <<19977, 21315>>,
            <<20108, 21315>>, <<21315>>, <<20061, 30334>>, <<20843, 30334>>, <<19971, 30334>>,
            <<20845, 30334>>, <<20116, 30334>>, <<22235, 30334>>, <<19977, 30334>>, <<20108,
            30334>>, <<30334>>, <<20061, 21313>>, <<20843, 21313>>, <<19971, 21313>>, <<20845,
            21313>>, <<20116, 21313>>, <<22235, 21313>>, <<19977, 21313>>, <<20108, 21313>>,
            <<21313>>, <<20061>>, <<20843>>, <<19971>>, <<20845>>, <<20116>>, <<22235>>, <<19977>>,
            <<20108>>, <<19968>>, <<38646>>>>])
    @@ ("korean-hanja-formal" :> [a |-> <<9000, 8000, 7000, 6000, 5000, 4000, 3000, 2000, 1000,
            900, 800, 700, 600, 500, 400, 300, 200, 100, 90, 80, 70, 60, 50, 40, 30, 20, 10, 9, 8,
            7, 6, 5, 4, 3, 2, 1, 0>>, b |-> <<<<20061, 20191>>, <<20843, 20191>>, <<19971, 20191>>,
            <<20845, 20191>>, <<20116, 20191>>, <<22235, 20191>>, <<21443, 20191>>, <<36019,
            20191>>, <<22777, 20191>>, <<20061, 30334>>, <<20843, 30334>>, <<19971, 30334>>,
            <<20845, 30334>>, <<20116, 30334>>, <<22235, 30334>>, <<21443, 30334>>, <<36019,
            30334>>, <<22777, 30334>>, <<20061, 25342>>, <<20843, 25342>>, <<19971, 25342>>,
            <<20845, 25342>>, <<20116, 25342>>, <<22235, 25342>>, <<21443, 25342>>, <<36019,
            25342>>, <<22777, 25342>>, <<20061>>, <<20843>>, <<19971>>, <<20845>>, <<20116>>,
            <<22235>>, <<21443>>, <<36019>>, <<22777>>, <<38646>>>>])

StyleNames == DOMAIN AllStyles
BuiltIn == DOMAIN Styles

\* The integers formatted: the small ones, and the ends of the ranges of the
\* built-in styles with their neighbours
Landmarks == {26, 27, 28, 60, 61, 100, 105, 1994, 3999, 4000, 9999, 10000, 10999, 11000, 19999, 20000}
Values == (-MaxMagnitude..MaxMagnitude) \cup Landmarks \cup {-v : v \in Landmarks}
\* the integers of the lists formatted, and the lists
ListValues == {-20, -4, 3, 8}
Lists == UNION {[1..n -> ListValues] : n \in 0..MaxListLen}
\* the separators: left out, or ':'
Separators == {None, Some(<<58>>)}

VARIABLES
    formatCall,     \* the last call of Style.format, or of the format of the
                    \* Style's System: style, value, separator
    formatResult    \* what the call returned, or how it ended otherwise

fvars == <<formatCall, formatResult>>

\* no call of Style.format was made
NoFormat == [on |-> "style", style |-> "", value |-> NumberValue(0), separator |-> None]

(***************************************************************************)
(* Inputs and steps of the observer                                        *)
(***************************************************************************)
\* distinct callback functions handed to observe
NumObservers == 1
\* nodes of the documents in which roots are tracked and actions installed
NumTrackNodes == 4
\* calls made on such a document
MaxTrackOps == 2
\* nodes of the tracked documents that are mutated
NumMutNodes == 5
\* mutations made on such a document
MaxMutOps == 2
\* values of the reset and increment actions of a run of siblings
MaxValue == 2

Observers == 1..NumObservers
RunValues == 1..MaxValue

Reset(v) == Action(Some(v), None, None)
Incr(v) == Action(None, Some(v), None)

\* the same Action for every counter
allCounters(a) == arrayOf([c \in Counters |-> a])

\* Actions maps handed to setActions
ActionChoices == {allCounters(a) : a \in {NoAct, Reset(1), Incr(1)}}
\* the before argument of setActions when it is given
BeforeReset == BeforeRec(NoInstances, allCounters(Reset(MaxValue)))
\* the (actions, before) arguments of setActions
ActionInputs ==
    {[actions |-> a, before |-> NoBefore] : a \in ActionChoices}
        \cup {[actions |-> allCounters(Incr(1)), before |-> BeforeReset]}

RECURSIVE ascending(_)
\* the elements of a set of numbers in ascending order
ascending(S) ==
    IF S = {} THEN <<>>
    ELSE LET x == CHOOSE x \in S : \A y \in S : x <= y
         IN  <<x>> \o ascending(S \ {x})

\* childNodes of every node when the children were appended in ascending order
childrenOf(p) == arrayOf([n \in Nodes |-> ascending({k \in Nodes : p[k] = n})])

RECURSIVE growTrees(_, _, _, _)
\* the documents P with the nodes n..k appended
growTrees(P, n, k, lo) ==
    IF n > k THEN P
    ELSE growTrees({[p EXCEPT ![n] = q] :
                       p \in P, q \in (IF n <= lo THEN 1..(n - 1) ELSE lo..(n - 1))},
                   n + 1, k, lo)

\* Documents of k nodes: node 1 is the document element, every other node is
\* the child of an earlier node that is not below lo
treesOf(k, lo) == growTrees({arrayOf([n \in Nodes |-> Nil])}, 2, k, lo)

\* Documents in which roots are tracked
TrackParents == treesOf(NumTrackNodes, 1)

\* Documents that are mutated: node 2 is the only child of the document
\* element
MutParents == treesOf(NumMutNodes, 2)

\* A run of siblings: node 2 is the only child of the document element, the
\* nodes after it are its children, and the last node is not inserted yet
RunParents ==
    arrayOf([n \in Nodes |->
                IF n = DocTop \/ n = NumNodes THEN Nil ELSE IF n = 2 THEN DocTop ELSE 2])

\* Actions that carry any of reset, increment and set
CombinedActions ==
    {Action(r, i, s) : r \in {None, Some(1)}, i \in {None, Some(1)},
                       s \in {None, Some(MaxValue + 1)}}

\* what the nodes did when they were mounted with such Actions
CombinedPlans ==
    {plan \in [Nodes -> {None} \cup {Some(allCounters(a)) : a \in CombinedActions}] :
        /\ plan[DocTop] = None
        /\ \A n \in Nodes : n > NumTrackNodes => plan[n] = None}

\* Documents in which such Actions are resolved: node 2 is the only child of
\* the document element
CombinedParents == treesOf(NumTrackNodes, 2)

\* What the component of a node did when it was mounted: nothing, or
\* setActions(node, actions) and observe(node, 1)
MountChoices == {None, Some(allCounters(NoAct)), Some(allCounters(Incr(1)))}

RECURSIVE mountAll(_, _, _)
\* The NODES map after the components of nodes n.. were mounted
mountAll(N, plan, n) ==
    IF n > NumNodes THEN N
    ELSE IF plan[n] = None THEN mountAll(N, plan, n + 1)
    ELSE mountAll(observe(setActions(<<>>, N, n, plan[n][1], NoBefore).NODES, n, 1).NODES,
                  plan, n + 1)

mountedHandles(plan) == {<<n, 1>> : n \in {k \in Nodes : plan[k] # None}}

Op(type, node, listener, same) ==
    [type |-> type, node |-> node, listener |-> listener, same |-> same]

NoOp == Op("none", Nil, 0, FALSE)

noPending == \A n \in Nodes : pending[n] = <<>>

\* Components were mounted in a document; no root is tracked yet
TrackInit ==
    /\ build \in {"ts", "js"}
    /\ implOrder = "asc"
    /\ live = 1..NumTrackNodes
    /\ parentOf \in TrackParents
    /\ kids = childrenOf(parentOf)
    /\ ROOTS = <<>>
    /\ \E plan \in [Nodes -> MountChoices] :
          /\ \A n \in Nodes \ live : plan[n] = None
          /\ NODES = mountAll(NoNodes, plan, 1)
          /\ issued = mountedHandles(plan)
    /\ pending = [n \in Nodes |-> <<>>]
    /\ consistent = TRUE
    /\ op = NoOp
    /\ sweeps = <<>>
    /\ calls = <<>>
    /\ batch = <<>>
    /\ audit = [n \in Nodes |-> "none"]
    /\ threw = FALSE
    /\ budget = MaxTrackOps
    /\ formatCall = NoFormat
    /\ formatResult = Undefined
    /\ nodes = <<>>
    /\ handles = [h \in AllHandles |-> "none"]
    /\ sop = NoCall
    /\ scalls = <<>>
    /\ sthrew = FALSE
    /\ scount = 0

\* what the nodes of a mutated document did when they were mounted
MutPlans ==
    {plan \in [Nodes -> {None, Some(allCounters(Reset(1))), Some(allCounters(Incr(1)))}] :
        /\ plan[DocTop] = None
        /\ plan[2] # Some(allCounters(Incr(1)))
        /\ \A n \in Nodes : n > NumMutNodes => plan[n] = None}

\* a reset followed by increments
RunPlans ==
    {arrayOf([n \in Nodes |->
                 IF n <= 2 THEN None
                 ELSE IF n = 3 THEN Some(allCounters(Reset(v)))
                 ELSE Some(allCounters(Incr(d)))]) : v \in RunValues, d \in RunValues}

\* Components were mounted in a document that is going to be tracked at
\* node 2 and then mutated
MutInit ==
    /\ build \in {"ts", "js"}
    /\ implOrder \in {"asc", "desc"}
    /\ \E plan \in MutPlans \cup RunPlans :
          /\ \/ plan \in RunPlans /\ live = Nodes /\ parentOf = RunParents
             \/ plan \in MutPlans /\ live = 1..NumMutNodes /\ parentOf \in MutParents
          /\ NODES = mountAll(NoNodes, plan, 1)
          /\ issued = mountedHandles(plan)
    /\ kids = childrenOf(parentOf)
    /\ ROOTS = <<>>
    /\ pending = [n \in Nodes |-> <<>>]
    /\ consistent = TRUE
    /\ op = NoOp
    /\ sweeps = <<>>
    /\ calls = <<>>
    /\ batch = <<>>
    /\ audit = [n \in Nodes |-> "none"]
    /\ threw = FALSE
    /\ budget = MaxMutOps + 1
    /\ formatCall = NoFormat
    /\ formatResult = Undefined
    /\ nodes = <<>>
    /\ handles = [h \in AllHandles |-> "none"]
    /\ sop = NoCall
    /\ scalls = <<>>
    /\ sthrew = FALSE
    /\ scount = 0

\* what every step of the observer's caller records
step(o, s, c, t) ==
    /\ budget' = budget - 1
    /\ op' = o
    /\ sweeps' = s
    /\ calls' = c
    /\ threw' = t
    /\ UNCHANGED <<svars, fvars>>

\* audit and consistent after a call of the API
afterCall(keeps) ==
    /\ audit' = auditOf(ROOTS', NODES')
    /\ batch' = <<>>
    /\ consistent' = IF \A n \in Nodes : pending'[n] = <<>>
                     THEN \A n \in Nodes : audit'[n] \in {"none", "ok"}
                     ELSE keeps /\ consistent

TrackRoot(node) ==
    /\ budget > 0
    /\ \E r \in {trackRoot(ROOTS, NODES, node)} :
           /\ ROOTS' = r.ROOTS
           /\ NODES' = r.m.NODES
           /\ step(Op("trackRoot", node, 0, FALSE),
                   IF overlapsRoot(ROOTS, node) THEN <<>> ELSE <<Sweep(<<node>>, r.m)>>,
                   r.m.calls, r.m.threw)
           /\ UNCHANGED <<domvars, pending, issued>>
           /\ afterCall(FALSE)

\* the function returned by trackRoot(node)
StopTracking(node) ==
    /\ budget > 0
    /\ inRoots(ROOTS, node)
    /\ ROOTS' = spliceOut(ROOTS, findIndex(ROOTS, node))
    /\ pending' = [pending EXCEPT ![node] = <<>>]
    /\ step(Op("stop", node, 0, FALSE), <<>>, <<>>, FALSE)
    /\ UNCHANGED <<domvars, NODES, issued>>
    /\ afterCall(FALSE)

SetActions(node, actions, before) ==
    /\ budget > 0
    /\ \E m \in {setActions(ROOTS, NODES, node, actions, before)} :
           /\ NODES' = m.NODES
           /\ step(Op("setActions", node, 0,
                      /\ NODES[node].present
                      /\ NODES[node].counters.actions = actions
                      /\ NODES[node].before.present = before.present
                      /\ NODES[node].before.actions = before.actions),
                   IF sweepsOnSetActions(ROOTS, node) THEN <<Sweep(<<node>>, m)>> ELSE <<>>,
                   m.calls, m.threw)
           /\ UNCHANGED <<domvars, ROOTS, pending, issued>>
           /\ afterCall(FALSE)

Observe(node, notify) ==
    /\ budget > 0
    /\ <<node, notify>> \notin issued
    /\ \E m \in {observe(NODES, node, notify)} :
           /\ issued' = issued \cup {<<node, notify>>}
           /\ NODES' = m.NODES
           /\ step(Op("observe", node, notify, FALSE), <<>>, m.calls, m.threw)
           /\ UNCHANGED <<domvars, ROOTS, pending>>
           /\ afterCall(TRUE)

\* the function returned by observe(node, notify)
Unobserve(node, notify) ==
    /\ budget > 0
    /\ <<node, notify>> \in issued
    /\ \E m \in {unobserve(NODES, node, notify)} :
           /\ NODES' = m.NODES
           /\ step(Op("unobserve", node, notify, FALSE), <<>>, m.calls, m.threw)
           /\ UNCHANGED <<domvars, ROOTS, pending, issued>>
           /\ afterCall(TRUE)

\* the roots whose MutationObserver records a change of the children of target
observing(target) ==
    {n \in Nodes : inRoots(ROOTS, n) /\ (n = target \/ isAncestor(n, target))}

queue(record) ==
    /\ \A r \in observing(record.target) : Len(pending[r]) < MaxBatch
    /\ pending' = [n \in Nodes |->
                     IF n \in observing(record.target)
                     THEN Append(pending[n], record) ELSE pending[n]]
    /\ consistent' = IF noPending THEN Consistent ELSE consistent
    /\ batch' = <<>>

\* parent.removeChild(node)
RemoveChild(node) ==
    /\ budget > 0
    /\ parentOf[node] # Nil
    /\ connected(node)
    /\ queue(MutationRecord(parentOf[node], Nil, TRUE, previousSibling(node)))
    /\ parentOf' = [parentOf EXCEPT ![node] = Nil]
    /\ kids' = [kids EXCEPT ![parentOf[node]] = spliceOut(@, childIndex(node))]
    /\ step(Op("removeChild", node, 0, FALSE), <<>>, <<>>, FALSE)
    /\ UNCHANGED <<build, implOrder, live, ROOTS, NODES, issued, audit>>

\* parent.insertBefore(node, parent.childNodes[inx]) for a node that is not
\* in any tree
InsertBefore(node, parent, inx) ==
    /\ budget > 0
    /\ node # DocTop
    /\ parentOf[node] = Nil
    /\ connected(parent)
    /\ inx <= Len(kids[parent])
    /\ queue(MutationRecord(parent, node, FALSE,
                            IF inx = 0 THEN Nil ELSE kids[parent][inx]))
    /\ parentOf' = [parentOf EXCEPT ![node] = parent]
    /\ kids' = [kids EXCEPT ![parent] = spliceIn(@, inx, node)]
    /\ step(Op("insertBefore", node, 0, FALSE), <<>>, <<>>, FALSE)
    /\ UNCHANGED <<build, implOrder, live, ROOTS, NODES, issued, audit>>

RECURSIVE allCalls(_, _)
\* the listener invocations of the sweeps i.. of a log
allCalls(log, i) == IF i > Len(log) THEN <<>> ELSE log[i].calls \o allCalls(log, i + 1)

RECURSIVE allRecords(_, _, _)
\* the records queued for the roots i..
allRecords(roots, queues, i) ==
    IF i > Len(roots) THEN <<>>
    ELSE queues[roots[i]] \o allRecords(roots, queues, i + 1)

\* The queued mutation records are delivered; the callbacks run as a
\* microtask, so this takes none of the caller's steps
Deliver ==
    /\ ~noPending
    /\ \E r \in {deliver(ROOTS, NODES, pending, 1, <<>>, FALSE)} :
           /\ NODES' = r.NODES
           /\ pending' = [n \in Nodes |-> <<>>]
           /\ op' = Op("deliver", Nil, 0, FALSE)
           /\ sweeps' = r.sweeps
           /\ calls' = allCalls(r.sweeps, 1)
           /\ threw' = r.threw
           /\ batch' = allRecords(ROOTS, pending, 1)
           /\ audit' = auditOf(ROOTS, NODES')
           /\ UNCHANGED <<domvars, ROOTS, issued, consistent, budget, svars, fvars>>

TrackNext ==
    \/ \E n \in live : TrackRoot(n)
    \/ \E n \in live : StopTracking(n)
    \/ \E n \in live, i \in ActionInputs : SetActions(n, i.actions, i.before)
    \/ \E n \in live, l \in Observers : Observe(n, l)
    \/ \E n \in live, l \in Observers : Unobserve(n, l)

\* the document is tracked at node 2 before it is mutated
TrackDocument == ROOTS = <<>> /\ TrackRoot(2)

MutNext ==
    \/ TrackDocument
    \/ \E n \in live : ROOTS # <<>> /\ RemoveChild(n)
    \/ \E n \in live, q \in live, i \in 0..NumNodes :
          ROOTS # <<>> /\ InsertBefore(n, q, i)
    \/ Deliver

RECURSIVE mountAllWith(_, _, _)
\* The NODES map after the components of nodes n.. were mounted with
\* setActions(node, actions, before) and observe(node, 1)
mountAllWith(N, plan, n) ==
    IF n > NumNodes THEN N
    ELSE IF plan[n] = None THEN mountAllWith(N, plan, n + 1)
    ELSE mountAllWith(observe(setActions(<<>>, N, n, plan[n][1].actions,
                                         plan[n][1].before).NODES, n, 1).NODES,
                      plan, n + 1)

\* what the nodes did when some were mounted with Actions for their ::before
BeforePlans ==
    {plan \in [Nodes -> {None} \cup {Some(i) : i \in ActionInputs}] :
        /\ plan[DocTop] = None
        /\ \A n \in Nodes : n > NumTrackNodes => plan[n] = None}

\* Components were mounted, some with a ::before, in a document that is
\* going to be tracked at node 2
BeforeInit ==
    /\ build \in {"ts", "js"}
    /\ implOrder = "asc"
    /\ live = 1..NumTrackNodes
    /\ parentOf \in CombinedParents
    /\ kids = childrenOf(parentOf)
    /\ ROOTS = <<>>
    /\ \E plan \in BeforePlans :
          /\ NODES = mountAllWith(NoNodes, plan, 1)
          /\ issued = mountedHandles(plan)
    /\ pending = [n \in Nodes |-> <<>>]
    /\ consistent = TRUE
    /\ op = NoOp
    /\ sweeps = <<>>
    /\ calls = <<>>
    /\ batch = <<>>
    /\ audit = [n \in Nodes |-> "none"]
    /\ threw = FALSE
    /\ budget = MaxTrackOps
    /\ formatCall = NoFormat
    /\ formatResult = Undefined
    /\ nodes = <<>>
    /\ handles = [h \in AllHandles |-> "none"]
    /\ sop = NoCall
    /\ scalls = <<>>
    /\ sthrew = FALSE
    /\ scount = 0

\* the document is tracked, then a node is given other Actions, with or
\* without Actions for its ::before
BeforeNext ==
    \/ TrackDocument
    \/ \E n \in live, i \in ActionInputs :
          ROOTS # <<>> /\ SetActions(n, i.actions, i.before)

\* Components were mounted with combined Actions in a document that is
\* going to be tracked at node 2
CombinedInit ==
    /\ build \in {"ts", "js"}
    /\ implOrder = "asc"
    /\ live = 1..NumTrackNodes
    /\ parentOf \in CombinedParents
    /\ kids = childrenOf(parentOf)
    /\ ROOTS = <<>>
    /\ \E plan \in CombinedPlans :
          /\ NODES = mountAll(NoNodes, plan, 1)
          /\ issued = mountedHandles(plan)
    /\ pending = [n \in Nodes |-> <<>>]
    /\ consistent = TRUE
    /\ op = NoOp
    /\ sweeps = <<>>
    /\ calls = <<>>
    /\ batch = <<>>
    /\ audit = [n \in Nodes |-> "none"]
    /\ threw = FALSE
    /\ budget = MaxTrackOps
    /\ formatCall = NoFormat
    /\ formatResult = Undefined
    /\ nodes = <<>>
    /\ handles = [h \in AllHandles |-> "none"]
    /\ sop = NoCall
    /\ scalls = <<>>
    /\ sthrew = FALSE
    /\ scount = 0

\* the document is tracked, then a node is given other Actions
CombinedNext ==
    \/ TrackDocument
    \/ \E n \in live, a \in CombinedActions :
          ROOTS # <<>> /\ SetActions(n, allCounters(a), NoBefore)

(***************************************************************************)
(* Steps of State                                                          *)
(***************************************************************************)
\* what every call on State records
scall(r, c) ==
    /\ scount < MaxCalls
    /\ scount' = scount + 1
    /\ nodes' = r.nodes
    /\ scalls' = r.calls
    /\ sthrew' = r.threw
    /\ sop' = c
    /\ UNCHANGED <<domvars, ovars, fvars>>

Register(node, notify, action) ==
    LET r == register(nodes, node, notify, action)
    IN  /\ Len(nodes) < MaxRegs
        /\ scall(r, Call("register", node, notify, action, handles[UnregisterHandle(node)]))
        /\ handles' = IF r.threw THEN handles
                      ELSE [handles EXCEPT ![UnregisterHandle(node)] = "live"]

Watch(node, notify) ==
    LET r == watch(nodes, node, notify)
    IN  /\ Len(nodes) < MaxRegs
        /\ handles[UnwatchHandle(node, notify)] = "none"
        /\ scall(r, Call("watch", node, notify, NoAction, "none"))
        /\ handles' = [handles EXCEPT ![UnwatchHandle(node, notify)] = "live"]

\* the function returned by register(node, ...)
Unregister(node) ==
    LET r == unregister(nodes, node)
    IN  /\ handles[UnregisterHandle(node)] # "none"
        /\ scall(r, Call("unregister", node, 0, NoAction, handles[UnregisterHandle(node)]))
        /\ handles' = [handles EXCEPT ![UnregisterHandle(node)] = "called"]

\* the function returned by watch(node, notify)
Unwatch(node, notify) ==
    LET r == unwatch(nodes, node, notify)
    IN  /\ handles[UnwatchHandle(node, notify)] # "none"
        /\ scall(r, Call("unwatch", node, notify, NoAction,
                         handles[UnwatchHandle(node, notify)]))
        /\ handles' = [handles EXCEPT ![UnwatchHandle(node, notify)] = "called"]

\* A State was constructed; the observer is not used
StateInit ==
    /\ nodes = <<>>
    /\ handles = [h \in AllHandles |-> "none"]
    /\ sop = NoCall
    /\ scalls = <<>>
    /\ sthrew = FALSE
    /\ scount = 0
    /\ build = "ts"
    /\ implOrder = "asc"
    /\ live = {}
    /\ parentOf = [n \in Nodes |-> Nil]
    /\ kids = [n \in Nodes |-> <<>>]
    /\ ROOTS = <<>>
    /\ NODES = [n \in Nodes |-> NoState]
    /\ pending = [n \in Nodes |-> <<>>]
    /\ issued = {}
    /\ consistent = TRUE
    /\ op = NoOp
    /\ sweeps = <<>>
    /\ calls = <<>>
    /\ batch = <<>>
    /\ audit = [n \in Nodes |-> "none"]
    /\ threw = FALSE
    /\ budget = 0
    /\ formatCall = NoFormat
    /\ formatResult = Undefined

StateNext ==
    \/ \E n \in SNodes, l \in Listeners, a \in StateActions : Register(n, l, a)
    \/ \E n \in SNodes, l \in Listeners : Watch(n, l)
    \/ \E n \in SNodes : Unregister(n)
    \/ \E n \in SNodes, l \in Listeners : Unwatch(n, l)

vars == <<svars, domvars, ovars, fvars>>

\* calls on one State
StateSpec == StateInit /\ [][StateNext]_vars

\* roots tracked, actions installed and listeners attached in a fixed document
TrackSpec == TrackInit /\ [][TrackNext]_vars

\* a tracked document is mutated and the mutation records are delivered
MutSpec == MutInit /\ [][MutNext]_vars

CombinedSpec == CombinedInit /\ [][CombinedNext]_vars

BeforeSpec == BeforeInit /\ [][BeforeNext]_vars

\* A State was constructed, or components were mounted in a document
ApiInit == StateInit \/ TrackInit

\* calls on the State, or calls on the observer of the document
ApiNext ==
    \/ live = {} /\ StateNext
    \/ live # {} /\ TrackNext

\* the callers of both registries: a State, or the observer of a document
ApiSpec == ApiInit /\ [][ApiNext]_vars

(***************************************************************************)
(* Steps of the formatter                                                  *)
(***************************************************************************)
\* style.format(value); a Style is immutable and format reads nothing else, so
\* a behaviour follows one call
Format(name, value) ==
    /\ formatCall = NoFormat
    /\ formatCall' = [on |-> "style", style |-> name, value |-> NumberValue(value),
                      separator |-> None]
    /\ formatResult' = format(AllStyles[name], NumberValue(value), None)
    /\ UNCHANGED <<svars, domvars, ovars>>

\* style.format(values, separator)
FormatList(name, values, separator) ==
    /\ formatCall = NoFormat
    /\ formatCall' = [on |-> "style", style |-> name, value |-> ObjectValue(values),
                      separator |-> separator]
    /\ formatResult' = format(AllStyles[name], ObjectValue(values), separator)
    /\ UNCHANGED <<svars, domvars, ovars>>

\* style.system.format(number)
FormatSystem(name, number) ==
    /\ formatCall = NoFormat
    /\ formatCall' = [on |-> "system", style |-> name, value |-> NumberValue(number),
                      separator |-> None]
    /\ formatResult' = systemFormat(AllStyles[name].system, number)
    /\ UNCHANGED <<svars, domvars, ovars>>

\* The styles are made; nothing was formatted, no State and no document exist
FormatInit ==
    /\ formatCall = NoFormat
    /\ formatResult = Undefined
    /\ nodes = <<>>
    /\ handles = [h \in AllHandles |-> "none"]
    /\ sop = NoCall
    /\ scalls = <<>>
    /\ sthrew = FALSE
    /\ scount = 0
    /\ build = "ts"
    /\ implOrder = "asc"
    /\ live = {}
    /\ parentOf = [n \in Nodes |-> Nil]
    /\ kids = [n \in Nodes |-> <<>>]
    /\ ROOTS = <<>>
    /\ NODES = [n \in Nodes |-> NoState]
    /\ pending = [n \in Nodes |-> <<>>]
    /\ issued = {}
    /\ consistent = TRUE
    /\ op = NoOp
    /\ sweeps = <<>>
    /\ calls = <<>>
    /\ batch = <<>>
    /\ audit = [n \in Nodes |-> "none"]
    /\ threw = FALSE
    /\ budget = 0

FormatNext ==
    \/ \E name \in StyleNames, value \in Values : Format(name, value)
    \/ \E name \in StyleNames, values \in Lists, separator \in Separators :
           FormatList(name, values, separator)
    \/ \E name \in StyleNames, number \in Values : FormatSystem(name, number)

\* a caller formats numbers and lists of numbers with a Style, or a number
\* with the System of a Style
FormatSpec == FormatInit /\ [][FormatNext]_vars

(***************************************************************************)
(* Properties of State                                                     *)
(***************************************************************************)
\* node holds a managed registration in regs
managed(regs, node) ==
    \E i \in 1..Len(regs) : regs[i].node = node /\ regs[i].mode = "managed"

\* C1: State.register throws for every node that already holds a managed
\* registration, wherever the node stands among the registrations, and the
\* failed call leaves the registrations, their values and their listener
\* lists as they were
C1_DuplicateRegistrationThrows ==
    [][(sop'.type = "register" /\ managed(nodes, sop'.node))
          => (sthrew' /\ nodes' = nodes)]_vars

\* a register call on a managed node was rejected
C1_DuplicateRejected ==
    sop.type = "register" /\ sthrew /\ managed(nodes, sop.node)

\* C4: calling the function returned by State.register or State.watch a
\* second time throws nothing and leaves every registration, listener list
\* and value as it was
C4_SecondTeardownIsNoOp ==
    [][(sop'.type \in {"unregister", "unwatch"} /\ sop'.handle = "called")
          => (~sthrew' /\ nodes' = nodes)]_vars

\* a teardown function was called a second time
C4_SecondTeardownCalled ==
    sop.type \in {"unregister", "unwatch"} /\ sop.handle = "called"

\* the call c was made to the listener of the last register call
toRegistered(c) == c.node = sop.node /\ c.listener = sop.listener

\* the last register call notified its listener, and the last value it
\* passed is the value stored for the node
notifiedOfValue ==
    \E i \in 1..Len(scalls) :
        /\ toRegistered(scalls[i])
        /\ \A j \in (i + 1)..Len(scalls) : ~toRegistered(scalls[j])
        /\ \E k \in 1..Len(nodes) :
              /\ nodes[k].node = sop.node
              /\ nodes[k].mode = "managed"
              /\ nodes[k].value = scalls[i].value

\* C5: every State.register that returns invoked its onChange at least once,
\* and the last value it passed is the node's resolved value
C5_RegisterNotifies ==
    (sop.type = "register" /\ ~sthrew) => notifiedOfValue

\* a register call returned after notifying its listener
C5_RegisterNotified ==
    sop.type = "register" /\ ~sthrew /\ notifiedOfValue

RECURSIVE resolvedValue(_, _)
\* the value of the registration i of regs when the actions of the
\* registrations 1..i are applied in order, starting from 0
resolvedValue(regs, i) ==
    IF i = 0 THEN 0 ELSE applyAction(regs[i].action, resolvedValue(regs, i - 1))

\* every registration holds its resolved value
valuesResolved(regs) ==
    \A i \in 1..Len(regs) : regs[i].value = resolvedValue(regs, i)

\* the registration of regs for node (the first, as findIndex finds it)
regOf(regs, node) == regs[findIndex(nodeKeys(regs), node) + 1]

\* the listeners of the registrations of after whose value differs from the
\* one in before were called with the new value, and no others
changesNotified(before, after, cs) ==
    /\ \A i \in 1..Len(after) :
          regOf(before, after[i].node).value # after[i].value =>
              \A j \in 1..Len(after[i].listeners) :
                  \E k \in 1..Len(cs) :
                      cs[k] = [node |-> after[i].node,
                               listener |-> after[i].listeners[j],
                               value |-> after[i].value]
    /\ \A k \in 1..Len(cs) :
          \E i \in 1..Len(after) :
              /\ after[i].node = cs[k].node
              /\ after[i].value = cs[k].value
              /\ regOf(before, after[i].node).value # after[i].value

\* State.nodes is in document order, with one registration per node
inDocumentOrder(regs) ==
    \A i \in 1..(Len(regs) - 1) : precedesS(regs[i].node, regs[i + 1].node)

\* C11: after the function returned by State.register is called on a list
\* in document order that holds the node's registration, the registration
\* is gone, every remaining registration holds the value it has without the
\* node, and the listeners of the registrations whose value changed are
\* notified with the new value
C11_UnregisterRestoresValues ==
    [][(/\ sop'.type = "unregister"
        /\ sop'.handle = "live"
        /\ inDocumentOrder(nodes)
        /\ managed(nodes, sop'.node))
          => /\ ~sthrew'
             /\ findIndex(nodeKeys(nodes'), sop'.node) = -1
             /\ valuesResolved(nodes')
             /\ changesNotified(nodes, nodes', scalls')]_vars

\* a registration was removed and a later registration changed its value
C11_Unregistered ==
    /\ sop.type = "unregister"
    /\ sop.handle = "live"
    /\ ~sthrew
    /\ scalls # <<>>
    /\ valuesResolved(nodes)

RECURSIVE valuesOfOthers(_, _)
\* the nodes and values of the registrations of regs for nodes other than
\* node, in order
valuesOfOthers(regs, node) ==
    IF regs = <<>> THEN <<>>
    ELSE (IF Head(regs).node = node THEN <<>>
          ELSE <<[node |-> Head(regs).node, value |-> Head(regs).value]>>)
             \o valuesOfOthers(Tail(regs), node)

\* C12: State.watch never throws, and neither watch nor the function it
\* returns changes the stored value of a registration of another node or
\* notifies a listener of another node
C12_WatchIsReadOnly ==
    [][(sop'.type \in {"watch", "unwatch"})
          => /\ sop'.type = "watch" => ~sthrew'
             /\ valuesOfOthers(nodes', sop'.node) = valuesOfOthers(nodes, sop'.node)
             /\ \A k \in 1..Len(scalls') : scalls'[k].node = sop'.node]_vars

\* a node was watched between two managed registrations and its listener
\* was told the inherited value
C12_WatchedBetween ==
    /\ sop.type = "watch"
    /\ Len(nodes) = 3
    /\ nodes[2].node = sop.node
    /\ nodes[2].mode = "observed"
    /\ nodes[1].value # 0
    /\ scalls = <<[node |-> sop.node, listener |-> sop.listener,
                   value |-> nodes[1].value]>>

\* C13: State.watch on a node that has a registration calls the callback
\* with the node's value before it returns, and observe on a node that has a
\* state calls the callback with the node's stacks before it returns
C13_CallbackIsImmediate ==
    [][/\ (sop'.type = "watch" /\ findIndex(nodeKeys(nodes), sop'.node) >= 0)
          => scalls' = <<[node |-> sop'.node, listener |-> sop'.listener,
                          value |-> regOf(nodes, sop'.node).value]>>
       /\ (op'.type = "observe" /\ NODES[op'.node].present)
          => calls' = <<[node |-> op'.node, listener |-> op'.listener,
                         instances |-> NODES[op'.node].counters.instances]>>]_vars

\* observe was called on a node that a sweep had resolved to a stack
C13_ObservedResolved ==
    /\ op.type = "observe"
    /\ Len(calls) = 1
    /\ calls[1].instances # NoInstances
    /\ ROOTS # <<>>

\* the callbacks a change of the node's value calls, in the order of the calls
RECURSIVE listenersOf(_, _)
listenersOf(regs, node) ==
    IF regs = <<>> THEN <<>>
    ELSE (IF Head(regs).node = node THEN Head(regs).listeners ELSE <<>>)
             \o listenersOf(Tail(regs), node)

\* the callbacks that remain when one registration of the callback is cancelled
without(listeners, notify) ==
    IF findIndex(listeners, notify) < 0 THEN listeners
    ELSE spliceOut(listeners, findIndex(listeners, notify))

\* every call made is a call of a callback that is registered on the node
onlyRegisteredCalled(regs, made) ==
    \A k \in 1..Len(made) :
        \E i \in 1..Len(listenersOf(regs, made[k].node)) :
            listenersOf(regs, made[k].node)[i] = made[k].listener

\* C14: the first call of the teardown that watch or observe returned takes
\* that one callback off the node and leaves the node's other callbacks in
\* place, and updates and sweeps call only the callbacks that are on a node
C14_TeardownIsLocal ==
    [][/\ (sop'.type = "unwatch" /\ sop'.handle = "live")
          => listenersOf(nodes', sop'.node)
                 = without(listenersOf(nodes, sop'.node), sop'.listener)
       /\ onlyRegisteredCalled(nodes', scalls')
       /\ (op'.type = "unobserve")
          => NODES'[op'.node].listeners = without(NODES[op'.node].listeners, op'.listener)
       /\ \A k \in 1..Len(calls') :
              \E i \in 1..Len(NODES'[calls'[k].node].listeners) :
                  NODES'[calls'[k].node].listeners[i] = calls'[k].listener]_vars

\* a watcher's teardown was called, for the first time, on a node that had
\* another callback as well
C14_WatcherCancelled ==
    /\ sop.type = "unwatch"
    /\ sop.handle = "live"
    /\ ~sthrew
    /\ listenersOf(nodes, sop.node) # <<>>

\* C32: after any sequence of register, watch, unregister and unwatch
\* calls State.nodes is sorted in document order and holds at most one
\* registration per node
C32_NodesSortedUnique ==
    /\ inDocumentOrder(nodes)
    /\ \A i, j \in 1..Len(nodes) : nodes[i].node = nodes[j].node => i = j

\* State.nodes holds the registrations of three nodes, one of them a watcher
C32_ThreeRegistrations ==
    /\ Len(nodes) = 3
    /\ inDocumentOrder(nodes)
    /\ \E i \in 1..Len(nodes) : nodes[i].mode = "observed"

\* every call made passed the value that is stored for the node
storedValueDelivered(regs, made) ==
    \A k \in 1..Len(made) :
        \E i \in 1..Len(regs) :
            regs[i].node = made[k].node /\ regs[i].value = made[k].value

\* C33: the stored value of every registration of a State.nodes in document
\* order is the result of applying, from 0 and in order, the actions of the
\* registrations up to and including it (increment adds, set overwrites, a
\* watcher has none), and the value a call delivers is the stored one
C33_ValuesAreRunningTotals ==
    inDocumentOrder(nodes)
        => /\ valuesResolved(nodes)
           /\ storedValueDelivered(nodes, scalls)

\* a set stands between two increments in a State.nodes in document order
C33_SetBetweenIncrements ==
    /\ inDocumentOrder(nodes)
    /\ Len(nodes) = 3
    /\ nodes[1].action.type = "increment"
    /\ nodes[2].action.type = "set"
    /\ nodes[3].action.type = "increment"

\* listener w is in the listener list of a registration of node n
listensTo(regs, n, w) ==
    \E i \in 1..Len(regs) :
        /\ regs[i].node = n
        /\ \E k \in 1..Len(regs[i].listeners) : regs[i].listeners[k] = w

\* the callbacks added with watch on node n that were not removed since
watchersOf(regs, n) ==
    {w \in Listeners : handles[UnwatchHandle(n, w)] = "live" /\ listensTo(regs, n, w)}

\* C36: the function returned by State.register removes only the managed
\* role of the node: the callbacks added with State.watch on that node stay
\* registered, and calling their unwatch function afterwards does not throw.
C36_UnregisterKeepsWatchers ==
    [][/\ (sop'.type = "unregister" /\ sop'.handle = "live" /\ ~sthrew')
           => \A w \in watchersOf(nodes, sop'.node) : listensTo(nodes', sop'.node, w)
       /\ (/\ sop.type = "unregister" /\ sop.handle = "live" /\ ~sthrew
           /\ sop'.type = "unwatch" /\ sop'.handle = "live"
           /\ sop'.node = sop.node)
           => ~sthrew']_vars

\* a node that had a watcher was unregistered
C36_WatchedNodeUnregistered ==
    /\ sop.type = "unregister"
    /\ sop.handle = "live"
    /\ ~sthrew
    /\ \E w \in Listeners : handles[UnwatchHandle(sop.node, w)] = "live"

(***************************************************************************)
(* Properties of the observer                                              *)
(***************************************************************************)
\* node is a tracked root, contains one or lies within one
overlapping(node) ==
    \E i \in 1..Len(ROOTS) :
        ROOTS[i] = node \/ isAncestor(node, ROOTS[i]) \/ isAncestor(ROOTS[i], node)

\* C2: trackRoot(node) throws when node is a tracked root, an ancestor of one
\* or a descendant of one, and then leaves the tracked roots and every
\* node's stacks as they were and invokes no listener
C2_OverlappingRootThrows ==
    [][(op'.type = "trackRoot" /\ overlapping(op'.node))
          => (threw' /\ ROOTS' = ROOTS /\ NODES' = NODES /\ calls' = <<>>)]_vars

\* trackRoot was called on an ancestor of a tracked root and threw
C2_AncestorRejected ==
    /\ op.type = "trackRoot"
    /\ threw
    /\ \E i \in 1..Len(ROOTS) : isAncestor(op.node, ROOTS[i])

\* C3: when trackRoot(root) returns, every node of the subtree holds the
\* stacks of a from-scratch document-order resolve, whichever nodes had
\* actions installed or listeners attached before
C3_InitialSweepIsFull ==
    (op.type = "trackRoot" /\ ~threw) => audit[op.node] = "ok"

\* trackRoot returned for a root below which a node had a listener attached
C3_TrackedMounted ==
    /\ op.type = "trackRoot"
    /\ ~threw
    /\ \E n \in subtreeSet(op.node) : n # op.node /\ NODES[n].listeners # <<>>

\* a mutation record of the last delivery reports a removal
removalDelivered == \E i \in 1..Len(batch) : batch[i].removed

\* every tracked subtree holds the stacks of a from-scratch resolve
allUpToDate == \A n \in Nodes : audit[n] \in {"none", "ok"}

\* C6: after a mutation batch that removes a node from an up-to-date tracked
\* tree, every node holds the stacks of a fresh resolve of the tree without
\* the removed node, also when the removal reports no previous sibling and
\* leaves its parent childless
C6_RemovalResolvesFollowing ==
    (op.type = "deliver" /\ consistent /\ removalDelivered) => allUpToDate

\* the removal of an only child was delivered
C6_OnlyChildRemoved ==
    /\ op.type = "deliver"
    /\ consistent
    /\ Len(batch) = 1
    /\ batch[1].removed
    /\ batch[1].previousSibling = Nil
    /\ kids[batch[1].target] = <<>>

\* node n is a dirty node of the sweep s or follows one in document order
fromDirty(s, n) ==
    \E i \in 1..Len(s.dirty) :
        /\ s.dirty[i] # Nil
        /\ \/ s.dirty[i] = n
           \/ treeTop(s.dirty[i]) = treeTop(n) /\ precedes(s.dirty[i], n)

\* the sweep s resolved and notified only dirty nodes and nodes after them
sweepsForward(s) ==
    /\ \A i \in 1..Len(s.visited) : fromDirty(s, s.visited[i])
    /\ \A i \in 1..Len(s.calls) : fromDirty(s, s.calls[i].node)

\* top-of-stack value of counter c at node n
top(n, c) ==
    LET stack == NODES[n].counters.instances[c]
    IN  IF stack = <<>> THEN -1 ELSE stack[Len(stack)].value

\* the reset value v and the increment d of the run of siblings
runReset == NODES[3].counters.actions[1].reset[1]
runIncrement == NODES[4].counters.actions[1].increment[1]

\* the last node was inserted between the first two siblings of the run and
\* the record was delivered
insertedInRun ==
    /\ live = Nodes
    /\ op.type = "deliver"
    /\ batch = <<MutationRecord(2, NumNodes, FALSE, 3)>>
    /\ kids[2] = <<3, NumNodes>> \o [i \in 1..(NumNodes - 4) |-> i + 3]

\* C7: a sweep never resolves, and never notifies a listener of, a node
\* before its earliest dirty node; inserting a childless increment node
\* between the first two siblings of a reset, increment, increment run gives
\* the top values v, v + d, v + 2d, v + 3d without the first sibling being
\* visited
C7_SweepStartsAtDirty ==
    /\ \A i \in 1..Len(sweeps) : sweepsForward(sweeps[i])
    /\ insertedInRun =>
          /\ ~threw
          /\ \A i \in 1..Len(kids[2]) :
                top(kids[2][i], 1) = runReset + (i - 1) * runIncrement
          /\ \A i \in 1..Len(sweeps) : \A j \in 1..Len(sweeps[i].visited) :
                sweeps[i].visited[j] # 3

\* the insertion into the run reset(1), increment(1), increment(1) was swept
C7_InsertedInRun ==
    /\ insertedInRun
    /\ runReset = 1
    /\ runIncrement = 1
    /\ \E i \in 1..Len(sweeps) : Len(sweeps[i].visited) = 3
    /\ top(3, 1) = 1 /\ top(NumNodes, 1) = 2 /\ top(4, 1) = 3 /\ top(5, 1) = 4

\* C8: setActions called with the actions, and the before actions, that the
\* node already has triggers no listener invocation on any node
C8_NoChangeNoNotification ==
    [][(op'.type = "setActions" /\ op'.same) => calls' = <<>>]_vars

\* setActions was called with the installed actions and swept
C8_SameActionsSwept ==
    op.type = "setActions" /\ op.same /\ sweeps # <<>>

\* node n has increment(1) and its ::before has reset(MaxValue)
incrementWithBeforeReset(n) ==
    /\ NODES[n].counters.actions = allCounters(Incr(1))
    /\ NODES[n].before.present
    /\ NODES[n].before.actions = allCounters(Reset(MaxValue))

\* the last step swept the tracked root n, which has children, increment(1)
\* and a ::before with a reset; the walk of such a sweep stays in the subtree
sweptBeforeReset(n) ==
    /\ incrementWithBeforeReset(n)
    /\ inRoots(ROOTS, n)
    /\ hasChildNodes(n)
    /\ \E i \in 1..Len(sweeps) : \E j \in 1..Len(sweeps[i].visited) :
          sweeps[i].visited[j] = n

\* the stack of the ::before of n is the owner's stack with the reset on top
beforeResolved(n) ==
    \A c \in Counters :
        NODES[n].before.instances[c] =
            Append(NODES[n].counters.instances[c], Instance(BeforeOrigin(n), MaxValue))

\* C9: a sweep of a node with increment(1) whose ::before has reset(v)
\* completes without error, and the ::before has the owner's resolved stack
\* with an entry of value v on top
C9_BeforeResetResolves ==
    \A n \in Nodes : sweptBeforeReset(n) => (~threw /\ beforeResolved(n))

\* such a sweep completed
C9_BeforeResetSwept ==
    \E n \in Nodes : sweptBeforeReset(n) /\ ~threw /\ beforeResolved(n)

\* the run of childless siblings below node 2 starts with the reset node,
\* nothing is left to deliver and the subtree holds the stacks of a resolve
runResolved ==
    /\ live = Nodes
    /\ ROOTS # <<>>
    /\ noPending
    /\ op.type \in {"trackRoot", "deliver"}
    /\ ~threw
    /\ allUpToDate
    /\ kids[2] # <<>>
    /\ kids[2][1] = 3
    /\ \A i \in 1..Len(kids[2]) : ~hasChildNodes(kids[2][i])

withinTracked(node) ==
    \E i \in 1..Len(ROOTS) : ROOTS[i] = node \/ isAncestor(ROOTS[i], node)

\* C15: setActions(node, ...) on a node that is a tracked root or inside one
\* has swept from that node when it returns; on any other node it changes
\* the stacks of no node of the document and invokes no listener
C15_SetActionsSweepsTracked ==
    [][(op'.type = "setActions")
          => IF withinTracked(op'.node)
             THEN /\ Len(sweeps') = 1
                  /\ sweeps'[1].dirty = <<op'.node>>
             ELSE /\ calls' = <<>>
                  /\ \A n \in live :
                         NODES'[n].counters.instances = NODES[n].counters.instances]_vars

\* setActions was called on a node inside a tracked subtree
C15_SetInsideTracked ==
    /\ op.type = "setActions"
    /\ ~op.same
    /\ \E i \in 1..Len(ROOTS) : isAncestor(ROOTS[i], op.node)

\* every tracked root is in the document, below the document element
rootsAttached ==
    \A i \in 1..Len(ROOTS) : connected(ROOTS[i]) /\ parentOf[ROOTS[i]] # Nil

\* C25: the stacks kept incrementally equal a from-scratch resolve: after a
\* batch of insertions into tracked subtrees that were up to date is
\* delivered, whose sweeps stop at the first node they find unchanged, every
\* node of every tracked subtree holds the stacks of a full resolve of the
\* current tree and Actions
C25_IncrementalEqualsFull ==
    (/\ op.type = "deliver"
     /\ consistent
     /\ ~threw
     /\ rootsAttached
     /\ ~removalDelivered)
        => allUpToDate

\* the sweep of a delivered insertion stopped at the inserted node, which it
\* found unchanged and which has a following sibling
C25_StoppedAtInserted ==
    /\ op.type = "deliver"
    /\ consistent
    /\ ~threw
    /\ rootsAttached
    /\ Len(batch) = 1
    /\ batch[1].added # Nil
    /\ Len(sweeps) = 1
    /\ sweeps[1].visited = <<batch[1].added>>
    /\ nextSibling(batch[1].added) # Nil

\* the nodes the sweeps of the last step resolved
visitedNodes ==
    {n \in Nodes : \E i \in 1..Len(sweeps) : \E j \in 1..Len(sweeps[i].visited) :
                       sweeps[i].visited[j] = n}

\* the last step resolved node n, which has a parent, and did not throw
resolvedNow(n) == n \in visitedNodes /\ parentOf[n] # Nil /\ ~threw

\* the stacks node n takes its values and its scopes from
valueSourceOf(n) == getValueSource(NODES, n).src
scopeSourceOf(n) == getCounterSource(NODES, n).src

\* the stack of counter c node n starts from
inheritedBy(n, c) == commonPrefix(valueSourceOf(n)[c], scopeSourceOf(n)[c], 1)

\* the stack of counter c at node n and the Action of n for it
stackOf(n, c) == NODES[n].counters.instances[c]
actionOf(n, c) == NODES[n].counters.actions[c]

\* an entry with this origin is replaced by a reset at node n: the origin is
\* n or a real node that is a sibling of n and precedes it
replacedByResetAt(origin, n) ==
    \/ origin = NodeOrigin(n)
    \/ /\ ~origin.before
       /\ parentOf[origin.node] = parentOf[n]
       /\ precedes(origin.node, n)

\* the entries a reset at node n leaves below its own
keptByResetAt(stack, n) ==
    IF stack # <<>> /\ replacedByResetAt(stack[Len(stack)].origin, n)
    THEN Front(stack)
    ELSE stack

\* the value of the top entry after the Action a is applied to an entry of
\* value v
valueAfter(a, v) ==
    IF a.set # None THEN a.set[1]
    ELSE (IF a.reset # None THEN a.reset[1] ELSE v)
             + (IF a.increment # None THEN a.increment[1] ELSE 0)

\* C26: a reset at node n pushes the entry (n, value) on the merged stack,
\* and replaces the top entry instead when that entry's origin is n or a real
\* node that is a preceding sibling of n, so that resets on consecutive
\* siblings leave one scope; an entry of an ancestor or of a ::before is kept
C26_ResetReplacesSiblingScope ==
    \A n \in Nodes, c \in Counters :
        (resolvedNow(n) /\ actionOf(n, c).reset # None)
            => stackOf(n, c) =
                   Append(keptByResetAt(inheritedBy(n, c), n),
                          Instance(NodeOrigin(n), valueAfter(actionOf(n, c), 0)))

\* a sweep resolved a node with a reset whose previous sibling has a reset
C26_SiblingResets ==
    \E n \in Nodes, c \in Counters :
        /\ resolvedNow(n)
        /\ actionOf(n, c).reset # None
        /\ previousSibling(n) # Nil
        /\ actionOf(previousSibling(n), c).reset # None
        /\ inheritedBy(n, c) # <<>>
        /\ inheritedBy(n, c)[Len(inheritedBy(n, c))].origin = NodeOrigin(previousSibling(n))

\* the stacks iv and ic have the same origins in their first k entries
sameOrigins(iv, ic, k) == \A i \in 1..k : iv[i].origin = ic[i].origin

\* the length of the longest prefix in which iv and ic agree origin by origin
matchLen(iv, ic) ==
    CHOOSE k \in 0..Len(iv) :
        /\ k <= Len(ic)
        /\ sameOrigins(iv, ic, k)
        /\ \A j \in 0..Len(iv) : (j <= Len(ic) /\ sameOrigins(iv, ic, j)) => j <= k

\* that prefix, with the entries of iv
longestCommonPrefix(iv, ic) == SubSeq(iv, 1, matchLen(iv, ic))

\* C27: the stack a node starts from is the longest common prefix of its
\* value source and its scope source under origin equality, with the entries
\* of the value source; a counter absent from a source, or with different
\* bottom origins in the two, is not inherited. A node without Action for the
\* counter resolves to the stack it starts from
C27_InheritsCommonPrefix ==
    \A n \in Nodes, c \in Counters :
        (resolvedNow(n) /\ actionOf(n, c) = NoAct)
            => /\ stackOf(n, c) = longestCommonPrefix(valueSourceOf(n)[c], scopeSourceOf(n)[c])
               /\ (\/ valueSourceOf(n)[c] = <<>>
                   \/ scopeSourceOf(n)[c] = <<>>
                   \/ valueSourceOf(n)[c][1].origin # scopeSourceOf(n)[c][1].origin)
                      => stackOf(n, c) = <<>>

\* a sweep resolved a node without Action whose sources have the same origins
\* and different values
C27_SourcesDifferInValue ==
    \E n \in Nodes, c \in Counters :
        /\ resolvedNow(n)
        /\ actionOf(n, c) = NoAct
        /\ stackOf(n, c) # <<>>
        /\ stackOf(n, c) = valueSourceOf(n)[c]
        /\ stackOf(n, c) # scopeSourceOf(n)[c]
        /\ Len(stackOf(n, c)) = Len(scopeSourceOf(n)[c])

\* the tracked subtrees are resolved: nothing is left to deliver and every
\* node holds the stacks of a from-scratch resolve
treeResolved ==
    /\ ROOTS # <<>>
    /\ rootsAttached
    /\ noPending
    /\ op.type \in {"trackRoot", "deliver"}
    /\ ~threw
    /\ allUpToDate

\* the nodes of the tracked subtrees
trackedNodes == {n \in Nodes : withinTracked(n)}

\* the stack has an entry with origin x
hasScopeOf(stack, x) == \E i \in 1..Len(stack) : stack[i].origin = NodeOrigin(x)

\* s is a sibling of x that follows it
followingSibling(x, s) ==
    /\ parentOf[x] # Nil
    /\ parentOf[s] = parentOf[x]
    /\ childIndex(x) < childIndex(s)

\* a sibling after x and not after s resets counter c
resetBetween(x, s, c) ==
    \E k \in Nodes :
        /\ followingSibling(x, k)
        /\ childIndex(k) <= childIndex(s)
        /\ actionOf(k, c).reset # None

\* node z follows the subtree of node p in document order
afterSubtree(p, z) == z \notin subtreeSet(p) /\ precedes(p, z)

\* the scope a reset at x opens for counter c is in the stacks of x, of its
\* descendants, and of its following siblings and their descendants up to a
\* sibling that resets c, and in no stack after the subtree of x's parent
scopeContained(x, c) ==
    /\ \A y \in subtreeSet(x) : hasScopeOf(stackOf(y, c), x)
    /\ \A s \in trackedNodes : followingSibling(x, s) =>
          \A y \in subtreeSet(s) :
              hasScopeOf(stackOf(y, c), x) \/ resetBetween(x, s, c)
    /\ \A z \in trackedNodes :
          (withinTracked(parentOf[x]) /\ afterSubtree(parentOf[x], z))
              => ~hasScopeOf(stackOf(z, c), x)

\* the entries node z did not write itself are those of the last node of the
\* subtree before it
valuesCarried(z, c) ==
    \A i \in 1..Len(stackOf(z, c)) :
        (i < Len(stackOf(z, c)) \/ actionOf(z, c) = NoAct)
            => /\ i <= Len(stackOf(prev(z), c))
               /\ stackOf(z, c)[i] = stackOf(prev(z), c)[i]

topValue(stack) == IF stack = <<>> THEN 0 ELSE stack[Len(stack)].value

\* C29: the actions of one Action are applied in the order reset, increment,
\* set: the top value is the set value when set is present, otherwise the
\* reset value, or else the inherited one, plus the increment; without
\* inherited entry an increment or set first creates the entry (node, 0), and
\* without reset the entries below the top are the inherited ones
C29_ResetIncrementSet ==
    \A n \in Nodes, c \in Counters :
        (resolvedNow(n) /\ actionOf(n, c) # NoAct)
            => /\ stackOf(n, c) # <<>>
               /\ topValue(stackOf(n, c))
                      = valueAfter(actionOf(n, c), topValue(inheritedBy(n, c)))
               /\ stackOf(n, c)[Len(stackOf(n, c))].origin = NodeOrigin(n)
                      \/ (actionOf(n, c).reset = None /\ inheritedBy(n, c) # <<>>)
               /\ actionOf(n, c).reset = None
                      => stackOf(n, c) =
                             IF inheritedBy(n, c) = <<>>
                             THEN <<Instance(NodeOrigin(n), valueAfter(actionOf(n, c), 0))>>
                             ELSE setLast(inheritedBy(n, c),
                                          valueAfter(actionOf(n, c),
                                                     topValue(inheritedBy(n, c))))

\* a sweep resolved a node with reset, increment and set on an inherited
\* entry, and a node with increment and set without inherited entry
C29_AllThree ==
    /\ \E n \in Nodes, c \in Counters :
          /\ resolvedNow(n)
          /\ actionOf(n, c) = Action(Some(1), Some(1), Some(MaxValue + 1))
          /\ inheritedBy(n, c) # <<>>
          /\ topValue(stackOf(n, c)) = MaxValue + 1
    /\ \E n \in Nodes, c \in Counters :
          /\ resolvedNow(n)
          /\ actionOf(n, c) = Action(None, Some(1), Some(MaxValue + 1))
          /\ inheritedBy(n, c) = <<>>
          /\ stackOf(n, c) = <<Instance(NodeOrigin(n), MaxValue + 1)>>
    /\ \E n \in Nodes, c \in Counters :
          /\ resolvedNow(n)
          /\ actionOf(n, c) = Action(Some(1), Some(1), None)
          /\ inheritedBy(n, c) # <<>>
          /\ topValue(stackOf(n, c)) = 2

\* the invocations of made that were for node n
callsFor(made, n) == SelectSeq(made, LAMBDA call : call.node = n)

\* the stacks old and new differ: some counter's stack has another length or
\* another (origin, value) at some place; the stack of a counter the map
\* lacks is empty
stacksDiffer(old, new) ==
    \E c \in Counters :
        \/ Len(old[c]) # Len(new[c])
        \/ \E i \in 1..Len(new[c]) :
              old[c][i].origin # new[c][i].origin \/ old[c][i].value # new[c][i].value

\* made invokes every listener of state once, with its stacks, and nobody else
eachListenerOnce(made, state) ==
    /\ Len(made) = Len(state.listeners)
    /\ \A i \in 1..Len(made) :
          /\ made[i].listener = state.listeners[i]
          /\ made[i].instances = state.counters.instances

\* C30: during a sweep the listeners of a visited node are invoked exactly
\* when its resolved stacks differ from its previous ones, compared counter
\* by counter by (origin, value), and then each listener once with the new
\* stacks; listeners of nodes the sweep did not visit are not invoked
C30_NotifiedOnChange ==
    [][sweeps' # <<>>
          => \A n \in Nodes :
                IF n \in visitedNodes'
                   /\ stacksDiffer(NODES[n].counters.instances,
                                   NODES'[n].counters.instances)
                THEN eachListenerOnce(callsFor(calls', n), NODES'[n])
                ELSE callsFor(calls', n) = <<>>]_vars

\* a sweep visited a node whose stacks changed, whose listener it invoked,
\* and then a node with a listener whose stacks did not change
C30_ChangedThenUnchanged ==
    /\ Len(sweeps) = 1
    /\ Len(sweeps[1].visited) >= 2
    /\ Len(calls) = 1
    /\ calls[1].node = sweeps[1].visited[1]
    /\ NODES[sweeps[1].visited[Len(sweeps[1].visited)]].listeners # <<>>
    /\ ~threw

\* the origin a comes before the origin b in document order; the ::before
\* of a node comes right after the node
originPrecedes(a, b) ==
    IF a.node = b.node THEN ~a.before /\ b.before
    ELSE precedes(a.node, b.node)

\* the origins of the stack are in strictly increasing document order, which
\* makes them pairwise distinct, and none comes after node n
originsAscend(stack, n) ==
    /\ \A i, j \in 1..Len(stack) : i < j => originPrecedes(stack[i].origin, stack[j].origin)
    /\ \A i \in 1..Len(stack) :
          stack[i].origin = NodeOrigin(n) \/ originPrecedes(stack[i].origin, NodeOrigin(n))

originHeld(N, origin) ==
    \E n \in trackedNodes, c \in Counters :
        \E i \in 1..Len(N[n].counters.instances[c]) :
            N[n].counters.instances[c][i].origin = origin

\* C34: when setActions is called without before Actions on a tracked root
\* that had them, the sweep re-resolves the children of the node, and
\* afterwards no stack of a tracked node holds an entry whose origin is the
\* removed ::before
C34_RemovedBeforeLeavesNoScope ==
    [][(/\ op'.type = "setActions"
        /\ inRoots(ROOTS, op'.node)
        /\ NODES[op'.node].before.present
        /\ ~NODES'[op'.node].before.present
        /\ ~threw')
          => /\ \A k \in 1..Len(kids[op'.node]) : kids[op'.node][k] \in visitedNodes'
             /\ ~originHeld(NODES', BeforeOrigin(op'.node))]_vars

\* setActions was called without before Actions on a tracked root with
\* children while a stack held the scope of the root's ::before
C34_BeforeRemoved ==
    /\ op.type = "setActions"
    /\ inRoots(ROOTS, op.node)
    /\ hasChildNodes(op.node)
    /\ ~NODES[op.node].before.present
    /\ ~threw
    /\ sweeps # <<>>
    /\ originHeld(NODES, BeforeOrigin(op.node))

\* how many times the sweeps in s resolved node n
visitedTimes(s, n) ==
    Cardinality({ij \in {<<i, j>> : i \in 1..Len(s), j \in 1..NumNodes} :
                    /\ ij[2] <= Len(s[ij[1]].visited)
                    /\ s[ij[1]].visited[ij[2]] = n})

\* the last step handed listener l the Map that is now the stacks of node n
givenCurrent(n, l) ==
    /\ ~threw
    /\ NODES[n].present
    /\ \E i \in 1..Len(NODES[n].listeners) : NODES[n].listeners[i] = l
    /\ \E i \in 1..Len(calls) :
          /\ calls[i].node = n
          /\ calls[i].listener = l
          /\ calls[i].instances = NODES[n].counters.instances
    /\ (op.type = "observe" \/ visitedTimes(sweeps, n) = 1)

\* the step resolved node n once and notified none of its listeners
sweptUnnotified(n) ==
    /\ visitedTimes(sweeps', n) = 1
    /\ callsFor(calls', n) = <<>>
    /\ ~threw'

\* C35: the stacks value most recently delivered to a node's listener has
\* the content of the node's current stacks: when a sweep resolves the node,
\* finds it unchanged and does not notify the listener, the Map the listener
\* was given last still holds what the node's stacks hold.
C35_DeliveredStaysCurrent ==
    [][\A n \in Nodes, l \in Observers :
          (givenCurrent(n, l) /\ sweptUnnotified(n))
              => oldInstancesLeft(NODES[n].counters.instances,
                                  NODES'[n].counters.instances)
                     = NODES'[n].counters.instances]_vars

\* a node with a listener and a stack was resolved by setActions and its
\* listener was not called
C35_UnchangedSweep ==
    /\ op.type = "setActions"
    /\ visitedTimes(sweeps, op.node) = 1
    /\ calls = <<>>
    /\ ~threw
    /\ NODES[op.node].listeners # <<>>
    /\ \E c \in Counters : stackOf(op.node, c) # <<>>

\* every node the sweep s resolved is root r or one of its descendants
walkedWithin(s, r) ==
    \A j \in 1..Len(s.visited) : s.visited[j] \in subtreeSet(r)

\* C37: the forward walk of a sweep resolves only the tracked root in whose
\* subtree it started and that root's descendants, also when it starts at a
\* root without children; no node outside the tracked subtree is resolved.
C37_WalkStaysInSubtree ==
    \A i \in 1..Len(sweeps) : \A k \in 1..Len(ROOTS) :
        (Len(sweeps[i].dirty) = 1 /\ sweeps[i].dirty[1] \in subtreeSet(ROOTS[k]))
            => walkedWithin(sweeps[i], ROOTS[k])

\* a sweep started at a tracked root that has no children but a following
\* sibling, and ended without throwing
C37_ChildlessRootSwept ==
    /\ Len(sweeps) = 1
    /\ sweeps[1].dirty = <<op.node>>
    /\ inRoots(ROOTS, op.node)
    /\ ~hasChildNodes(op.node)
    /\ nextSibling(op.node) # Nil
    /\ ~threw

(***************************************************************************)
(* Properties of the formatter                                             *)
(***************************************************************************)
\* the last step was style.format(value) for a number
formattedNumber ==
    formatCall.style # "" /\ formatCall.on = "style" /\ formatCall.value.type = "number"
\* the Style and the number of that call
calledStyle == AllStyles[formatCall.style]
calledValue == formatCall.value.value

\* C16: Style.format(v) returns a string for every Style and integer, it does
\* not throw or fail to return, and when the System reports the magnitude
\* unrepresentable the string is the one the fallback Style returns
C16_FormatAlwaysReturns ==
    formattedNumber
        => /\ formatResult.kind = "string"
           /\ systemFormat(calledStyle.system, abs(calledValue)).kind = "null"
                  => /\ calledStyle.fallback # None
                     /\ formatResult = formatNumber(calledStyle.fallback[1], calledValue)

\* a Style made with Style.create was asked for a number its System reports
\* unrepresentable
C16_UnrepresentableFormatted ==
    /\ formattedNumber
    /\ formatCall.style \notin BuiltIn
    /\ systemFormat(calledStyle.system, abs(calledValue)).kind = "null"
    /\ formatResult.kind = "string"

\* value is within the Style's range
withinRange(style, value) ==
    /\ ~lessThan(Num(value), style.range.min)
    /\ ~lessThan(style.range.max, Num(value))

\* C17: a built-in Style formats every integer within its range to a string
\* that is not empty
C17_InRangeIsNonEmpty ==
    (/\ formattedNumber
     /\ formatCall.style \in BuiltIn
     /\ withinRange(calledStyle, calledValue))
        => /\ formatResult.kind = "string"
           /\ formatResult.text # <<>>

\* a built-in Style with a range of its own formatted a value of that range
C17_RangedStyleFormatted ==
    /\ formattedNumber
    /\ formatCall.style \in BuiltIn
    /\ calledStyle.range.min # NegInfinity
    /\ withinRange(calledStyle, calledValue)
    /\ formatResult.kind = "string"
    /\ formatResult.text # <<>>

\* C18: for a built-in Style s and an integer v outside s.range, below
\* range.min (as every negative v is for a range that starts at 1) or above
\* range.max, s.format(v) is s.fallback.format(v)
C18_OutOfRangeIsFallback ==
    (/\ formattedNumber
     /\ formatCall.style \in BuiltIn
     /\ ~withinRange(calledStyle, calledValue))
        => /\ calledStyle.fallback # None
           /\ formatResult = formatNumber(calledStyle.fallback[1], calledValue)

\* a built-in Style was asked for a value above its range and answered with
\* what its fallback Style returns
C18_AboveRangeFormatted ==
    /\ formattedNumber
    /\ formatCall.style \in BuiltIn
    /\ lessThan(calledStyle.range.max, Num(calledValue))
    /\ formatResult.kind = "string"
    /\ formatResult = formatNumber(calledStyle.fallback[1], calledValue)

\* the Style formats the value itself: the magnitude is within the range and
\* the System formats it
represents(style, value) ==
    /\ withinRange(style, abs(value))
    /\ systemFormat(style.system, abs(value)).kind = "string"

\* the parts of the result of the call: the magnitude, the sign's prefix and
\* suffix, and the number of pad symbols
magnitude == systemFormat(calledStyle.system, abs(calledValue)).text
signPrefix == IF calledValue < 0 THEN calledStyle.negative.prefix ELSE <<>>
signSuffix ==
    IF calledValue < 0 /\ calledStyle.negative.suffix # None
    THEN calledStyle.negative.suffix[1] ELSE <<>>
padCount ==
    IF calledStyle.pad = None THEN 0
    ELSE LET room == calledStyle.pad[1].length - Len(magnitude)
                         - Len(signPrefix) - Len(signSuffix)
         IN  IF room > 0 THEN room ELSE 0

\* C19: for a value the Style represents, format(v) is the negative prefix
\* (for v < 0), then pad.symbol max(0, pad.length - length of the magnitude -
\* lengths of prefix and suffix for v < 0) times, then System.format(|v|),
\* then the negative suffix (for v < 0); the magnitude is never shortened
C19_SignPadMagnitude ==
    (formattedNumber /\ represents(calledStyle, calledValue))
        => /\ formatResult.kind = "string"
           /\ formatResult.text
                  = signPrefix
                      \o (IF padCount = 0 THEN <<>>
                          ELSE [i \in 1..(padCount * Len(calledStyle.pad[1].symbol)) |->
                                    calledStyle.pad[1].symbol[
                                        ((i - 1) % Len(calledStyle.pad[1].symbol)) + 1]])
                      \o magnitude \o signSuffix
           /\ Len(formatResult.text) >= Len(magnitude)

\* a negative value was formatted by a Style with a suffix and a pad, and pad
\* symbols were put in
C19_NegativePadded ==
    /\ formattedNumber
    /\ represents(calledStyle, calledValue)
    /\ calledValue < 0
    /\ signSuffix # <<>>
    /\ padCount > 0
    /\ formatResult.kind = "string"

\* the last step was style.format(values, separator) for a list
formattedList ==
    formatCall.style # "" /\ formatCall.on = "style" /\ formatCall.value.type = "object"
\* the list and the separator of that call, '.' when none was given
calledList == formatCall.value.value
calledSeparator == IF formatCall.separator = None THEN <<46>> ELSE formatCall.separator[1]

RECURSIVE singlesJoined(_)
\* style.format(v) of the elements from the i-th on, each followed by the
\* separator unless it is the last
singlesJoined(i) ==
    IF i > Len(calledList) THEN <<>>
    ELSE formatNumber(calledStyle, calledList[i]).text
             \o (IF i < Len(calledList) THEN calledSeparator ELSE <<>>)
             \o singlesJoined(i + 1)

\* C20: Style.format(values, separator) is the single-value formats of the
\* elements, in order, with the separator between them, each element
\* formatted as it is when formatted alone, and '' for the empty list
C20_ListIsJoinOfSingles ==
    (/\ formattedList
     /\ \A i \in 1..Len(calledList) :
            formatNumber(calledStyle, calledList[i]).kind = "string")
        => /\ formatResult.kind = "string"
           /\ formatResult.text = singlesJoined(1)
           /\ calledList = <<>> => formatResult.text = <<>>

\* a list was formatted with a separator, one element by the Style itself
\* and another by its fallback
C20_MixedListFormatted ==
    /\ formattedList
    /\ formatCall.separator # None
    /\ formatResult.kind = "string"
    /\ \E i, j \in 1..Len(calledList) :
           /\ represents(calledStyle, calledList[i])
           /\ ~represents(calledStyle, calledList[j])

\* the last step was the format of a Style's System, of the given class
formattedBySystem(type) ==
    /\ formatCall.style # ""
    /\ formatCall.on = "system"
    /\ calledStyle.system.type = type
\* the symbols of that System
calledSymbols == calledStyle.system.symbols

RECURSIVE greedyResidue(_, _, _)
\* what the greedy decomposition of value leaves after the weights from the
\* i-th on; a zero weight takes nothing
greedyResidue(symbols, i, value) ==
    IF i > Len(symbols) THEN value
    ELSE IF symbols[i][1] = 0 THEN greedyResidue(symbols, i + 1, value)
    ELSE greedyResidue(symbols, i + 1, value % symbols[i][1])

\* the symbol list has a symbol of weight zero
hasZeroWeight(symbols) == \E i \in 1..Len(symbols) : symbols[i][1] = 0

\* C21: Additive.format reports unrepresentable (null), without throwing and
\* without returning '', for a value > 0 whose greedy decomposition leaves a
\* residue, for 0 when no symbol has weight zero, and for a negative value
C21_UnrepresentableIsNull ==
    (/\ formattedBySystem("additive")
     /\ \/ calledValue < 0
        \/ calledValue > 0 /\ greedyResidue(calledSymbols, 1, calledValue) # 0
        \/ calledValue = 0 /\ ~hasZeroWeight(calledSymbols))
        => formatResult = Null

\* an additive System with a zero-weight symbol was asked for a value > 0
\* that its weights do not add up to
C21_ResidueWithZeroWeight ==
    /\ formattedBySystem("additive")
    /\ hasZeroWeight(calledSymbols)
    /\ calledValue > 0
    /\ greedyResidue(calledSymbols, 1, calledValue) # 0

RECURSIVE greedyText(_, _, _)
\* the symbols of the greedy decomposition of value by the weights from the
\* i-th on: each symbol as many times as its weight goes into the residue
greedyText(symbols, i, value) ==
    IF i > Len(symbols) THEN <<>>
    ELSE IF symbols[i][1] = 0 THEN greedyText(symbols, i + 1, value)
    ELSE [k \in 1..((value \div symbols[i][1]) * Len(symbols[i][2])) |->
              symbols[i][2][((k - 1) % Len(symbols[i][2])) + 1]]
             \o greedyText(symbols, i + 1, value % symbols[i][1])

\* C22: for v > 0 that the weights add up to, Additive.format(v) is the
\* greedy decomposition in the listed order of the weights, each symbol
\* repeated floor(residue / weight) times; upper-roman gives MCMXCIV for 1994
C22_GreedyDecomposition ==
    (/\ formattedBySystem("additive")
     /\ calledValue > 0
     /\ greedyResidue(calledSymbols, 1, calledValue) = 0)
        => /\ formatResult.kind = "string"
           /\ formatResult.text = greedyText(calledSymbols, 1, calledValue)
           /\ (formatCall.style = "upper-roman" /\ calledValue = 1994)
                  => formatResult.text = <<77, 67, 77, 88, 67, 73, 86>>

\* the additive System of upper-roman formatted 1994
C22_Roman1994 ==
    /\ formattedBySystem("additive")
    /\ formatCall.style = "upper-roman"
    /\ calledValue = 1994
    /\ formatResult.kind = "string"

\* every code unit of text is one of the symbols
spelledWith(symbols, text) ==
    \A k \in 1..Len(text) : \E d \in 1..Len(symbols) : symbols[d] = <<text[k]>>

\* the place of the symbol in the list, from 0
digitOf(symbols, unit) == CHOOSE d \in 0..(Len(symbols) - 1) : symbols[d + 1] = <<unit>>

RECURSIVE numeralValue(_, _, _, _)
\* the number a numeral stands for in base Len(symbols), its digits read from
\* the left, the symbols counting from first; value is that of the digits read
numeralValue(symbols, text, first, value) ==
    IF text = <<>> THEN value
    ELSE numeralValue(symbols, Tail(text), first,
                      value * Len(symbols) + digitOf(symbols, Head(text)) + first)

\* C23: for v >= 1 Alphabetic.format(v) is the bijective base-N numeral of v:
\* a non-empty string of symbols that, with the symbols as the digits 1..N,
\* stands for v, so that distinct values give distinct strings; the 26 Latin
\* letters give a, z, aa, ab for 1, 26, 27, 28
C23_BijectiveNumeral ==
    (formattedBySystem("alphabetic") /\ calledValue >= 1)
        => /\ formatResult.kind = "string"
           /\ formatResult.text # <<>>
           /\ spelledWith(calledSymbols, formatResult.text)
           /\ numeralValue(calledSymbols, formatResult.text, 1, 0) = calledValue
           /\ formatCall.style = "lower-alpha"
                  => /\ calledValue = 1 => formatResult.text = <<97>>
                     /\ calledValue = 26 => formatResult.text = <<122>>
                     /\ calledValue = 27 => formatResult.text = <<97, 97>>
                     /\ calledValue = 28 => formatResult.text = <<97, 98>>

\* the 26 Latin letters formatted 27, the first value of two letters
C23_LatinTwoLetters ==
    /\ formattedBySystem("alphabetic")
    /\ formatCall.style = "lower-alpha"
    /\ calledValue = 27
    /\ Len(formatResult.text) = 2

\* C24: for v >= 0 Numeric.format(v) is the positional base-N numeral of v
\* with the symbols as the digits 0..N-1: symbols[0] for zero, and otherwise
\* a numeral that does not start with the zero digit
C24_PositionalNumeral ==
    (formattedBySystem("numeric") /\ calledValue >= 0)
        => /\ formatResult.kind = "string"
           /\ formatResult.text # <<>>
           /\ spelledWith(calledSymbols, formatResult.text)
           /\ numeralValue(calledSymbols, formatResult.text, 0, 0) = calledValue
           /\ calledValue = 0 => formatResult.text = calledSymbols[1]
           /\ calledValue > 0 => <<formatResult.text[1]>> # calledSymbols[1]

\* a numeric System formatted a value with a zero digit inside
C24_InnerZero ==
    /\ formattedBySystem("numeric")
    /\ calledValue = 105
    /\ formatResult.kind = "string"
    /\ Len(formatResult.text) = 3
    /\ <<formatResult.text[2]>> = calledSymbols[1]

\* number is within the range the System declares
inSystemRange(system, number) ==
    /\ ~lessThan(Num(number), system.range.min)
    /\ ~lessThan(system.range.max, Num(number))

\* C38: for every System and every integer within the range the System
\* declares, System.format ends and returns a string or null: it neither
\* throws, nor runs forever, nor returns undefined.
C38_SystemFormatTotal ==
    (/\ formatCall.style # ""
     /\ formatCall.on = "system"
     /\ inSystemRange(calledStyle.system, calledValue))
        => formatResult.kind \in {"string", "null"}

\* a Numeric System was asked to format a negative number
C38_NumericNegative ==
    /\ formattedBySystem("numeric")
    /\ calledValue < 0
    /\ Len(calledSymbols) > 1

\* what a Style is apart from its fallback
ownFields(style) ==
    [system |-> style.system, negative |-> style.negative, range |-> style.range,
     pad |-> style.pad]

\* style's fallback is a Style that is the Style target
fallsBackTo(style, target) ==
    /\ style.fallback # None
    /\ ownFields(style.fallback[1]) = ownFields(target)

RECURSIVE fallbackReaches(_, _)
\* following fallback from style arrives at the Style target
fallbackReaches(style, target) ==
    /\ style.fallback # None
    /\ \/ fallsBackTo(style, target)
       \/ fallbackReaches(style.fallback[1], target)

\* C39: the fallback of the built-in decimal Style is the decimal Style
\* itself, and the fallback chain of every other built-in Style reaches the
\* decimal Style after finitely many steps.
C39_FallbackReachesDecimal ==
    (formatCall.style \in BuiltIn)
        => IF formatCall.style = "decimal"
           THEN fallsBackTo(calledStyle, Styles["decimal"])
           ELSE fallbackReaches(calledStyle, Styles["decimal"])

\* the decimal Style was used
C39_DecimalUsed ==
    /\ formatCall.style = "decimal"
    /\ formatCall.on = "style"
    /\ formatResult.kind = "string"

\* the weights are strictly descending
strictlyDescending(weights) ==
    \A i \in 1..(Len(weights) - 1) : weights[i] > weights[i + 1]

\* C40: in every built-in additive Style the list of weights and the list of
\* symbols handed to zip have the same length and the weights are strictly
\* descending, so that every listed symbol is paired with a weight and is a
\* symbol of the Style's System.
C40_WeightsMatchSymbols ==
    (formatCall.style \in DOMAIN ZipArguments)
        => /\ calledSymbols = zip(ZipArguments[formatCall.style].a,
                                  ZipArguments[formatCall.style].b)
           /\ Len(ZipArguments[formatCall.style].a) = Len(ZipArguments[formatCall.style].b)
           /\ strictlyDescending(ZipArguments[formatCall.style].a)
           /\ Len(calledSymbols) = Len(ZipArguments[formatCall.style].b)

\* the System of a built-in additive Style that lists more symbols than
\* weights formatted zero
C40_ZeroSymbolListed ==
    /\ formatCall.style \in DOMAIN ZipArguments
    /\ formatCall.on = "system"
    /\ calledValue = 0
    /\ Len(ZipArguments[formatCall.style].b) > Len(ZipArguments[formatCall.style].a)

====
